---- MODULE Spec2Model ----
(***************************************************************************)
(* NearYou: the event-enrichment dataflow, the message-generation service  *)
(* with its content-addressed cache, and the two cache backends.           *)
(*                                                                         *)
(* The module holds several specifications over disjoint groups of         *)
(* variables; a specification moves its own groups and leaves the others   *)
(* at a fixed value:                                                       *)
(*   Spec       the enrichment dataflow, live or replay                    *)
(*              (bytewax_flow.py, operators.py, stream_replay.py)          *)
(*   SpecKey    generate_cache_key applied to two requests (cache_utils.py)*)
(*   SpecMem    the in-process cache (memory_cache.py)                     *)
(*   SpecRedis  the remote cache client and its server (redis_cache.py)    *)
(*   SpecGen    the /generate handler over either cache                    *)
(*              (routes.py, generator_service.py, cache_utils.py)          *)
(*   SpecFault  the remote cache client over a server that fails           *)
(*   SpecSvc    the generator and the query service, each with the cache   *)
(*              its start-up left it (query_service/app.py)                *)
(*   SpecReplay one replay run under the scheduling of its event loop      *)
(*              (stream_replay.py, bytewax_flow.py --replay)               *)
(*   SpecRerun  the replay of one range run twice over a retained topic    *)
(*   SpecMemLive the in-process cache with its reaper scheduled            *)
(*   SpecRace   two generator processes serving one fingerprint at once    *)
(*   SpecViews  the monthly batch summary and the reads of it              *)
(*   SpecThreads  request threads and the reaper on one in-process cache   *)
(*              (materialized_views.py, query_engine.py)                   *)
(***************************************************************************)
EXTENDS Integers, Sequences, FiniteSets, TLC

VARIABLES
    \* the enrichment dataflow
    log,        \* per partition: records produced and not yet consumed
    produced,   \* number of records sent to the topic so far
    owner,      \* partition -> the process that consumes it
    readSeq,    \* ghost: number of records read from the ingress log so far
    wk,         \* process -> its position in the operator chain and its item
    memo,       \* process -> DatabaseConnections._message_cache
    sink,       \* user_events: the rows written, in write order
    gen200,     \* ghost: <<memo key, message, process>> of every 200 of the generator
    user_filter,        \* replay: the allowlist of user ids, or None
    events_processed,   \* replay: the count replay_time_range returns
    consumer,   \* replay: the AIOKafkaConsumer of the run, with the stops it got
    lost,       \* ghost: read numbers of the events whose sink write failed
    \* the replay of a range, run again
    retained,   \* per partition: the records the topic keeps for the range
    run,        \* ghost: which run of the replay this is
    firstRows,  \* ghost: the number of rows in the sink when the first run ended
    \* generate_cache_key
    reqA, reqB,     \* two /generate requests: [user, poi]
    keyA, keyB,     \* their cache keys, None until generate_cache_key has run
    \* the caches
    now,        \* time.time(), in ticks
    cache,      \* MemoryCache.cache: key -> [value, expire_time]
    rstore,     \* the keyspace of the Redis server: key -> [bytes, expire_at]
    lastSet,    \* ghost: key -> the latest set not undone by a delete, or None
    opres,      \* ghost: the latest cache call and what it returned
    \* the message generator
    backend,        \* cache_utils.cache: "redis", "memory" or "none"
    cache_stats,    \* cache_utils.cache_stats
    written,        \* ghost: fingerprint -> the latest cache_message for it
    lastResp,       \* ghost: the latest /generate request and its response
    \* the services and the Redis server
    server,     \* the Redis server now: "up", "down" (refusing) or "stalled"
    pinged,     \* ghost: what the ping of each service's RedisCache() met
    client,     \* RedisCache.client after __init__: "connected" or "none"
    enabled,    \* CACHE_ENABLED
    qbackend,   \* QueryCacheManager.cache: "redis", "memory" or "none"
    qcache,     \* the MemoryCache.cache of the query service
    qresp,      \* ghost: the latest /timeseries request and its response
    \* the monthly batch summary
    visits,     \* user_events of the current month: poi_name -> number of rows
    clock,      \* now() of the ClickHouse server, in seconds
    summary,    \* monthly_shop_summary: its data parts, in insertion order
    latest,     \* ghost: poi_name -> total_visits computed by the latest refresh
    mvread,     \* ghost: the latest read of monthly_shop_summary and its result
    \* two generator processes over one Redis server
    inflight,   \* process -> its /generate request, where it stands, its counters
    \* the threads of a process that uses the in-process cache
    lock,       \* MemoryCache.lock: the thread that holds it, or ""
    thr,        \* thread -> the method it runs, its line, its locals
    renewed     \* ghost: key -> the time of the set that replaced an expired entry

pipeVars == <<log, produced, owner, readSeq, wk, memo, sink, gen200,
              user_filter, events_processed, lost, consumer>>
keyVars == <<reqA, reqB, keyA, keyB>>
cacheVars == <<now, cache, rstore, lastSet, opres>>
genVars == <<backend, cache_stats, written, lastResp>>
svcVars == <<server, pinged, client, enabled, qbackend, qcache, qresp>>
rerunVars == <<retained, run, firstRows>>
viewVars == <<visits, clock, summary, latest, mvread>>
raceVars == <<inflight>>
threadVars == <<lock, thr, renewed>>
vars == <<pipeVars, keyVars, cacheVars, genVars, svcVars, rerunVars, viewVars, raceVars,
          threadVars>>

\* What a step of one part leaves alone.
PipeOnly == UNCHANGED <<keyVars, cacheVars, genVars, svcVars, rerunVars, viewVars,
        raceVars, threadVars>>
KeyOnly == UNCHANGED <<pipeVars, cacheVars, genVars, svcVars, rerunVars, viewVars,
        raceVars, threadVars>>
CacheOnly == UNCHANGED <<pipeVars, keyVars, genVars, svcVars, rerunVars, viewVars,
        raceVars, threadVars>>
GenOnly == UNCHANGED <<pipeVars, keyVars, lastSet, opres, svcVars, rerunVars, viewVars,
        raceVars, threadVars>>
SvcOnly == UNCHANGED <<pipeVars, keyVars, genVars, rerunVars, viewVars, raceVars,
        threadVars>>
ViewsOnly == UNCHANGED <<pipeVars, keyVars, cacheVars, genVars, svcVars, rerunVars,
        raceVars, threadVars>>

(***************************************************************************)
(* Part 1.  The enrichment dataflow.                                       *)
(***************************************************************************)

\* operators.py:21
MAX_POI_DISTANCE == 200

\* Bound: records sent to the topic in one behaviour.
MaxEvents == 2

Partitions == {0, 1}
Workers == {"w1", "w2"}

\* The process of a replay run (bytewax_flow.py --replay); it reads every
\* partition of the topic itself.
Replayer == "replay"
Procs == Workers \cup {Replayer}

\* Python's None, and a dict with no entries.
None == [none |-> TRUE]
EmptyDict == [k \in {} |-> ""]

\* dict.get(k, default)
DictGet(d, k, default) == IF k \in DOMAIN d THEN d[k] ELSE default

\* A merge in which the keys already in d win.
DictUpdateKeep(d, other) ==
    [k \in DOMAIN d \cup DOMAIN other |-> IF k \in DOMAIN d THEN d[k] ELSE other[k]]

\* dict.update(other): the keys of other win.
DictUpdate(d, other) ==
    [k \in DOMAIN d \cup DOMAIN other |-> IF k \in DOMAIN other THEN other[k] ELSE d[k]]

\* A JSON scalar that is an integer or a string (the values user_id takes).
JInt(n) == [t |-> "int", n |-> n, s |-> ""]
JStr(s) == [t |-> "str", n |-> 0, s |-> s]

\* str(v) of a JSON scalar.
PyStr(v) == IF v.t = "int" THEN ToString(v.n) ELSE v.s

\* Largest user id the model writes as a decimal string.
MaxUserId == 9

\* int(key) of a string: the integer it spells, or a ValueError.
PyInt(key) ==
    IF \E n \in 0..MaxUserId : ToString(n) = key
    THEN [ok |-> TRUE, n |-> CHOOSE n \in 0..MaxUserId : ToString(n) = key]
    ELSE [ok |-> FALSE, n |-> 0]

\* ISO timestamps as the producer writes them (aware, with a UTC offset in
\* hours) and a text datetime.fromisoformat rejects.
TsAware(t, off) == [kind |-> "aware", t |-> t, off |-> off]
TsGarbage == [kind |-> "garbage", t |-> 0, off |-> 0]

\* datetime.fromisoformat(ts).astimezone(timezone.utc).replace(tzinfo=None)
ToUtcNaive(ts) ==
    IF ts.kind = "aware" THEN [ok |-> TRUE, t |-> ts.t - ts.off]
    ELSE [ok |-> FALSE, t |-> 0]

\* The GPS record of producer_worker (age, profession and interests are not
\* read by any stage and are left out).
Gps(uid, lat) ==
    [user_id |-> uid, latitude |-> lat, longitude |-> 9, timestamp |-> TsAware(10, 0)]

\* The end of the replayed time range, on the clock of the timestamps.
ReplayEnd == 10

\* dict with the key k removed
Without(d, k) == [j \in DOMAIN d \ {k} |-> d[j]]

\* Values of a Kafka record: bytes that are not UTF-8, text that is not JSON,
\* a null value, a JSON value that is not an object, and JSON objects.
RawJson(isdict, obj) == [kind |-> "json", isdict |-> isdict, obj |-> obj]
RawBad(kind) == [kind |-> kind, isdict |-> FALSE, obj |-> EmptyDict]

\* A GPS record that already carries the fields the spatial lookup adds.
Preset(event) ==
    [k \in DOMAIN event \cup {"shop_id", "shop_name", "category", "distance"} |->
        CASE k = "shop_id" -> 9
          [] k = "shop_name" -> "Altro"
          [] k = "category" -> "bar"
          [] k = "distance" -> 5
          [] OTHER -> event[k]]

WellFormed ==
    {RawJson(TRUE, Gps(JInt(7), lat)) : lat \in {1, 2, 3}}
        \cup {RawJson(TRUE, Gps(JInt(8), 1)),
              RawJson(TRUE, Gps(JStr("8"), 3)),
              RawJson(TRUE, [Gps(JInt(7), 1) EXCEPT !.timestamp = TsAware(11, 0)]),
              RawJson(TRUE, Preset([Gps(JInt(7), 3) EXCEPT !.longitude = 8]))}

Malformed ==
    { RawBad("invalid_utf8"), RawBad("not_json"), RawBad("null_value"),
      RawJson(FALSE, EmptyDict),
      RawJson(TRUE, Without(Gps(JInt(7), 1), "user_id")),
      RawJson(TRUE, Without(Gps(JInt(7), 1), "latitude")),
      RawJson(TRUE, Without(Gps(JInt(7), 1), "timestamp")),
      RawJson(TRUE, [Gps(JInt(7), 1) EXCEPT !.timestamp = TsGarbage]),
      RawJson(TRUE, Gps(JStr("abc"), 1)),
      RawJson(TRUE, Gps(JStr("abc"), 3)),
      RawJson(TRUE, Gps(JStr("error"), 1)) }

RawRecords == WellFormed \cup Malformed

\* The value of the record is a JSON object with a user_id key.
HasUserId(raw) == raw.kind = "json" /\ raw.isdict /\ "user_id" \in DOMAIN raw.obj

\* parse_kafka_message: <<key, value>>; value is [isdict, obj].
ErrorItem(text) == <<"error", [isdict |-> TRUE, obj |-> [error |-> text]]>>

parse_kafka_message(raw) ==
    CASE raw.kind = "null_value" -> <<"unknown", [isdict |-> FALSE, obj |-> EmptyDict]>>
      [] raw.kind = "invalid_utf8" -> ErrorItem("UnicodeDecodeError")
      [] raw.kind = "not_json" -> ErrorItem("Invalid JSON")
      [] raw.kind = "json" /\ ~raw.isdict -> ErrorItem("Attribute error")
      [] OTHER ->
            <<IF "user_id" \in DOMAIN raw.obj THEN PyStr(raw.obj["user_id"]) ELSE "unknown",
              [isdict |-> TRUE, obj |-> raw.obj]>>

validate_message(key, value) ==
    /\ key # "error"
    /\ value.isdict
    /\ "user_id" \in DOMAIN value.obj

\* The shops table seen through the nearest-neighbour query: one shop, and the
\* geodesic distance from each latitude the model uses.
DistanceM(lat) == CASE lat = 1 -> 12 [] lat = 2 -> 200 [] OTHER -> 201

\* A lookup that also returns the position of the shop.
ShopRowWithPosition(lat, lon) ==
    [shop_id |-> 1, shop_name |-> "Caffe X", category |-> "bar",
            distance |-> DistanceM(lat),
     latitude |-> 0, longitude |-> 0]

ShopRow(lat, lon) ==
    [shop_id |-> 1, shop_name |-> "Caffe X", category |-> "bar",
            distance |-> DistanceM(lat)]

\* The users table: user 7 has a profile, user 8 has none.
UsersTable == [u \in {7} |-> [user_id |-> u, age |-> 30, profession |-> "Ingegnere",
                              interests |-> "tecnologia, cucina"]]

\* Bodies the generator may answer with.
GenMessages == {"", "m1", "m2"}

\* DatabaseConnections.get_cache_key
get_cache_key(user_id, shop_id) == ToString(user_id) \o ":" \o ToString(shop_id)

\* A gate that stops an event at exactly the limit.
TooFarInclusive(distance) == distance >= MAX_POI_DISTANCE

\* A gate that lets every distance through.
TooFarNever(distance) == FALSE

\* The proximity gate of check_proximity_and_generate_message.
TooFar(distance) == distance > MAX_POI_DISTANCE

\* The item a process holds, with ghost fields: seq (the read number of
\* its record), hasuid (the record was a JSON object with a user_id),
\* found (what the spatial lookup returned), looked (what the profile
\* query did, "no" when it was not made), profile (a profile came back) and
\* called (the call of the generator: "no", "memo" for an answer from the
\* local memo, "200", "failed") and origin (the JSON object of its record).
Idle == [pc |-> "idle", key |-> "", event |-> EmptyDict, seq |-> 0,
         profile |-> FALSE, raised |-> "", hasuid |-> FALSE, found |-> None,
         looked |-> "no", called |-> "no", origin |-> EmptyDict]

\* The user_filter argument of replay_time_range: None, or a list of ids,
\* which may be empty.
UserFilters == {None, [ids |-> {7}], [ids |-> {}]}

\* `if user_filter and ...`: None and the empty list are falsy.
FilterApplies(filter) == filter # None /\ filter.ids # {}

\* The consumer of a replay run: created, started (`await consumer.start()`
\* returned), failed (it raised) or stopped; stops counts the calls of
\* consumer.stop().
NewConsumer == [state |-> "created", started |-> FALSE, stops |-> 0]
Started == [state |-> "started", started |-> TRUE, stops |-> 0]

\* A finally block that leaves the consumer as it is.
ConsumerStopNever(c) == c

\* finally: await self.consumer.stop()
ConsumerStop(c) == [c EXCEPT !.state = "stopped", !.stops = @ + 1]

\* Either the live dataflow runs, each partition read by one of its workers
\* (the workers are interchangeable, so partition 0 is read by w1), or a
\* replay run reads all the partitions, with or without an allowlist.
PipeInit ==
    /\ log = [p \in Partitions |-> <<>>]
    /\ produced = 0
    /\ \/ owner \in [Partitions -> Workers] /\ owner[0] = "w1" /\ user_filter = None
       \/ owner = [p \in Partitions |-> Replayer] /\ user_filter \in UserFilters
    /\ readSeq = 0
    /\ wk = [w \in Procs |-> Idle]
    /\ memo = [w \in Procs |-> EmptyDict]
    /\ sink = <<>>
    /\ gen200 = {}
    /\ events_processed = 0
    /\ lost = {}
    /\ consumer = NewConsumer

\* Where an exception raised by a stage ends up: the live dataflow has no
\* handler around its operators; the loop of replay_time_range catches it,
\* logs it and goes on with the next record (raised then names, as a ghost,
\* the exception the latest record ended with).
Raise(w, exc) ==
    IF w = Replayer THEN [Idle EXCEPT !.raised = exc]
    ELSE [wk[w] EXCEPT !.pc = "crashed", !.raised = exc]

\* A loop that counts no record.
CountedNever(count, w) == count

\* events_processed += 1 after `await process_callback(event)` has returned
\* (the live dataflow keeps no count).
CountedOne(count, w) == IF w = Replayer THEN count + 1 ELSE count

\* An exception that leaves an operator stops the whole dataflow.
DataflowDead == \E w \in Workers : wk[w].pc = "crashed"

\* producer_worker: send_and_wait(KAFKA_TOPIC, value=msg) gives no key, so the
\* partitioner may pick any partition.
Produce(raw, p) ==
    /\ produced < MaxEvents
    /\ produced' = produced + 1
    /\ log' = [log EXCEPT ![p] = Append(@, raw)]
    /\ UNCHANGED <<owner, readSeq, wk, memo, sink, gen200, user_filter,
            events_processed, lost, consumer>>
    /\ PipeOnly

\* kafka_input + op.map("parse"): the worker takes the next record of one of
\* its partitions and parses it.
Ingest(w) ==
    /\ ~DataflowDead
    /\ wk[w].pc = "idle"
    /\ \E p \in Partitions :
        /\ owner[p] = w
        /\ log[p] # <<>>
        /\ LET item == parse_kafka_message(Head(log[p])) IN
            wk' = [wk EXCEPT ![w] = [Idle EXCEPT !.pc = "parsed", !.key = item[1],
                                     !.event = item[2], !.seq = readSeq + 1,
                                     !.hasuid = HasUserId(Head(log[p])),
                                     !.origin = Head(log[p]).obj]]
        /\ log' = [log EXCEPT ![p] = Tail(@)]
    /\ readSeq' = readSeq + 1
    /\ UNCHANGED <<produced, owner, memo, sink, gen200, user_filter, events_processed,
            lost, consumer>>
    /\ PipeOnly

\* op.filter("filter_valid")
Validate(w) ==
    /\ ~DataflowDead
    /\ wk[w].pc = "parsed"
    /\ wk' = [wk EXCEPT ![w] =
                IF validate_message(wk[w].key, wk[w].event)
                THEN [@ EXCEPT !.pc = "valid", !.event = wk[w].event.obj]
                ELSE Idle]
    /\ UNCHANGED <<log, produced, owner, readSeq, memo, sink, gen200, user_filter,
                   events_processed, lost, consumer>>
    /\ PipeOnly

\* _find_nearest_shop as seen by its caller: the row of the nearest shop, or
\* None when the table is empty or the query raised.
ShopOutcomes(lat, lon) == {None, ShopRow(lat, lon)}

\* op.flat_map("enrich_shop"): enrich_with_nearest_shop.  event["latitude"]
\* and event["longitude"] are read outside any try block.  In a replay run
\* the callback returns when no shop is found, and the loop counts the
\* record.
Enrich(w) ==
    /\ w \in Workers => ~DataflowDead
    /\ wk[w].pc = "valid"
    /\ LET event == wk[w].event IN
        IF ~({"latitude", "longitude"} \subseteq DOMAIN event)
        THEN /\ wk' = [wk EXCEPT ![w] = Raise(w, "KeyError")]
             /\ UNCHANGED events_processed
        ELSE \E shop \in ShopOutcomes(event["latitude"], event["longitude"]) :
                /\ wk' = [wk EXCEPT ![w] =
                        IF shop = None THEN Idle
                        ELSE [@ EXCEPT !.pc = "enriched", !.found = shop,
                                       !.event = DictUpdate(event, shop)]]
                /\ events_processed' = IF shop = None
                                        THEN CountedOne(events_processed, w)
                                        ELSE events_processed
    /\ UNCHANGED <<log, produced, owner, readSeq, memo, sink, gen200, user_filter,
            lost, consumer>>
    /\ PipeOnly

\* What the query of _get_user_profile may do: raise, or return the row of
\* the user or no row.
ProfileOutcomes(user_id) ==
    {"error"} \cup (IF user_id \in DOMAIN UsersTable THEN {"row"} ELSE {"norow"})

\* A lookup that answers from the table even when the query raised.
get_user_profile_stale(user_id, outcome) ==
    IF user_id \in DOMAIN UsersTable THEN UsersTable[user_id] ELSE None

\* _get_user_profile: the row of the user, or None when there is no row or
\* the query raised.
get_user_profile(user_id, outcome) ==
    IF outcome = "row" THEN UsersTable[user_id] ELSE None

\* What client.post may do: answer 200 with a body, answer another status,
\* or raise (time-out, connection error).
HttpOutcomes ==
    {[status |-> 200, message |-> m] : m \in GenMessages}
        \cup {[status |-> 500, message |-> ""], [status |-> 0, message |-> ""]}

\* _generate_message, after the memo missed: the message it returns.
MessageOfResponse(resp) == IF resp.status = 200 THEN resp.message ELSE ""

\* A memo that keeps whatever message the call ended with.
MemoAfterResponseAlways(m, cache_key, resp) ==
    [k \in DOMAIN m \cup {cache_key} |->
        IF k = cache_key THEN MessageOfResponse(resp) ELSE m[k]]

\* _generate_message, after the memo missed: the memo it leaves.
MemoAfterResponse(m, cache_key, resp) ==
    IF resp.status = 200
    THEN [k \in DOMAIN m \cup {cache_key} |-> IF k = cache_key THEN resp.message ELSE m[k]]
    ELSE m

\* op.flat_map("generate_msg"): check_proximity_and_generate_message with
\* _get_user_profile and _generate_message.  int(key) is evaluated outside
\* any try block.
Proximity(w) ==
    /\ w \in Workers => ~DataflowDead
    /\ wk[w].pc = "enriched"
    /\ LET event == wk[w].event
           uid == PyInt(wk[w].key)
           Emit(info, hasProfile, looked, called) ==
               [wk[w] EXCEPT !.pc = "messaged", !.profile = hasProfile,
                             !.looked = looked, !.called = called,
                             !.event = DictUpdate(event, [poi_info |-> info])]
       IN
        IF TooFar(event["distance"])
        THEN /\ wk' = [wk EXCEPT ![w] = Emit("", FALSE, "no", "no")]
             /\ UNCHANGED <<memo, gen200>>
        ELSE IF ~uid.ok
        THEN /\ wk' = [wk EXCEPT ![w] = Raise(w, "ValueError")]
             /\ UNCHANGED <<memo, gen200>>
        ELSE \E outcome \in ProfileOutcomes(uid.n) :
            IF get_user_profile(uid.n, outcome) = None
            THEN /\ wk' = [wk EXCEPT ![w] = Emit("", FALSE, outcome, "no")]
                 /\ UNCHANGED <<memo, gen200>>
            ELSE LET cache_key == get_cache_key(get_user_profile(uid.n, outcome).user_id,
                                                event["shop_id"]) IN
                 IF cache_key \in DOMAIN memo[w]
                 THEN /\ wk' = [wk EXCEPT ![w] = Emit(memo[w][cache_key], TRUE,
                         outcome, "memo")]
                      /\ UNCHANGED <<memo, gen200>>
                 ELSE \E resp \in HttpOutcomes :
                      /\ wk' = [wk EXCEPT ![w] =
                                Emit(MessageOfResponse(resp), TRUE, outcome,
                                     IF resp.status = 200 THEN "200" ELSE "failed")]
                      /\ memo' = [memo EXCEPT ![w] = MemoAfterResponse(@, cache_key,
                              resp)]
                      /\ gen200' = IF resp.status = 200
                                   THEN gen200 \cup {<<cache_key, resp.message, w>>}
                                   ELSE gen200
    /\ UNCHANGED <<log, produced, owner, readSeq, sink, user_filter, events_processed,
            lost, consumer>>
    /\ PipeOnly

\* The row write_to_clickhouse inserts, with the ghost fields of the item
\* and shop_id (the shop the spatial lookup returned).
SinkRow(item) ==
    LET event == item.event IN
    [event_id |-> DictGet(event, "_offset", 0),
     event_time |-> ToUtcNaive(event["timestamp"]).t,
     user_id |-> PyInt(item.key).n,
     latitude |-> event["latitude"],
     longitude |-> event["longitude"],
     poi_range |-> DictGet(event, "distance", 0),
     poi_name |-> DictGet(event, "shop_name", ""),
     poi_info |-> DictGet(event, "poi_info", ""),
     seq |-> item.seq,
     profile |-> item.profile,
     hasuid |-> item.hasuid,
     found |-> item.found,
     looked |-> item.looked,
     called |-> item.called,
     shop_id |-> DictGet(event, "shop_id", 0),
     origin |-> item.origin]

\* A sink that takes a timestamp it cannot parse.
SinkRaisesUnparsed(item) ==
    \/ "timestamp" \notin DOMAIN item.event
    \/ ~PyInt(item.key).ok
    \/ ~({"latitude", "longitude"} \subseteq DOMAIN item.event)

\* Whether building the row raises inside the try block of write_to_clickhouse.
SinkRaises(item) ==
    \/ "timestamp" \notin DOMAIN item.event
    \/ ~ToUtcNaive(item.event["timestamp"]).ok
    \/ ~PyInt(item.key).ok
    \/ ~({"latitude", "longitude"} \subseteq DOMAIN item.event)

\* op.inspect("write_clickhouse"): write_to_clickhouse.  Every failure is
\* caught and logged; stored tells whether the INSERT went through.
\* In a replay run this ends the callback: the loop counts the record.
Sink(w) ==
    /\ w \in Workers => ~DataflowDead
    /\ wk[w].pc = "messaged"
    /\ \E stored \in BOOLEAN :
        /\ sink' = IF stored /\ ~SinkRaises(wk[w]) THEN Append(sink,
                SinkRow(wk[w])) ELSE sink
        /\ lost' = IF stored /\ ~SinkRaises(wk[w]) THEN lost ELSE lost \cup {wk[w].seq}
    /\ wk' = [wk EXCEPT ![w] = Idle]
    /\ events_processed' = CountedOne(events_processed, w)
    /\ UNCHANGED <<log, produced, owner, readSeq, memo, gen200, user_filter, consumer>>
    /\ PipeOnly

\* What the first lines of replay_time_range may do: the start raises; the
\* topic has no partitions known (return 0); offsets_for_times or seek
\* raises; or the consumer stands at the first record of the range.
StartOutcomes == {"start_raises", "no_partitions", "offsets_raise", "seek_raises", "ok"}

\* replay_time_range up to its loop.  `await self.consumer.start()` is
\* outside the try block; everything after it is inside, and its finally
\* block stops the consumer.
ReplayStart ==
    /\ owner[0] = Replayer
    /\ consumer.state = "created"
    /\ \E outcome \in StartOutcomes :
        /\ consumer' = CASE outcome = "start_raises" -> [consumer EXCEPT !.state = "failed"]
                         [] outcome = "ok" -> Started
                         [] OTHER -> ConsumerStop(Started)
        /\ wk' = [wk EXCEPT ![Replayer] =
                CASE outcome = "ok" -> Idle
                  [] outcome = "no_partitions" -> [Idle EXCEPT !.pc = "stopped"]
                  [] OTHER -> [Idle EXCEPT !.pc = "stopped", !.raised = "KafkaError"]]
    /\ UNCHANGED <<log, produced, owner, readSeq, memo, sink, gen200, user_filter,
                   events_processed, lost>>
    /\ PipeOnly

\* One turn of the loop of replay_time_range up to the call of the callback,
\* and the first lines of replay_process: the consumer deserialises the
\* record (a failure leaves the iteration and ends the run), the loop parses
\* the timestamp, stops at the first record after the range, applies the
\* allowlist, and the callback starts with a new DatabaseConnections.
ReplayIngest ==
    /\ wk[Replayer].pc = "idle"
    /\ consumer.state = "started"
    /\ \E p \in Partitions :
        /\ owner[p] = Replayer
        /\ log[p] # <<>>
        /\ log' = [log EXCEPT ![p] = Tail(@)]
        /\ LET raw == Head(log[p])
               event == raw.obj
               ts == DictGet(event, "timestamp", TsGarbage)
               Stop(exc) == [Idle EXCEPT !.pc = "stopped", !.raised = exc]
           IN
            /\ wk' = [wk EXCEPT ![Replayer] =
                    IF raw.kind # "json" THEN Stop("Deserialize")
                    ELSE IF ~raw.isdict THEN [Idle EXCEPT !.raised = "AttributeError"]
                    ELSE IF ~ToUtcNaive(ts).ok THEN [Idle EXCEPT !.raised = "ValueError"]
                    ELSE IF ts.t - ts.off > ReplayEnd THEN Stop("")
                    ELSE IF /\ FilterApplies(user_filter)
                            /\ \/ "user_id" \notin DOMAIN event
                               \/ event["user_id"].t # "int"
                               \/ event["user_id"].n \notin user_filter.ids
                         THEN Idle
                    ELSE [Idle EXCEPT !.pc = "valid", !.event = event,
                            !.seq = readSeq + 1,
                                      !.hasuid = HasUserId(raw), !.origin = event,
                                      !.key = IF "user_id" \in DOMAIN event
                                              THEN PyStr(event["user_id"]) ELSE "unknown"]]
            /\ memo' = [memo EXCEPT ![Replayer] = EmptyDict]
    /\ consumer' = IF wk'[Replayer].pc = "stopped" THEN ConsumerStop(consumer) ELSE consumer
    /\ readSeq' = readSeq + 1
    /\ UNCHANGED <<produced, owner, sink, gen200, user_filter, events_processed, lost>>
    /\ PipeOnly

PipeNext ==
    \/ \E raw \in RawRecords, p \in Partitions : Produce(raw, p)
    \/ \E w \in Workers : Ingest(w)
    \/ \E w \in Workers : Validate(w)
    \/ \E w \in Procs : Enrich(w)
    \/ \E w \in Procs : Proximity(w)
    \/ \E w \in Procs : Sink(w)
    \/ ReplayStart
    \/ ReplayIngest


\* A replay run on its own: the producer and the steps of the replay.
ReplayNext ==
    \/ \E raw \in RawRecords, p \in Partitions : Produce(raw, p)
    \/ ReplayStart
    \/ ReplayIngest
    \/ Enrich(Replayer)
    \/ Proximity(Replayer)
    \/ Sink(Replayer)

\* The records of a retained topic: a record of user 7 near the shop, one
\* of user 8 (no profile) and one after the end of the range.
RerunRecords ==
    {RawJson(TRUE, Gps(JInt(7), 1)), RawJson(TRUE, Gps(JInt(8), 1)),
     RawJson(TRUE, [Gps(JInt(7), 1) EXCEPT !.timestamp = TsAware(11, 0)])}

RetainedLogs ==
    {l \in [Partitions -> UNION {[1..n -> RerunRecords] : n \in 0..MaxEvents}] :
        Len(l[0]) + Len(l[1]) <= MaxEvents}

\* A replay run starts over a topic that holds its records already; nothing
\* is produced while the range is replayed.
RerunInit ==
    /\ log \in RetainedLogs
    /\ retained = log
    /\ produced = Len(log[0]) + Len(log[1])
    /\ owner = [p \in Partitions |-> Replayer]
    /\ user_filter = None
    /\ readSeq = 0
    /\ wk = [w \in Procs |-> Idle]
    /\ memo = [w \in Procs |-> EmptyDict]
    /\ sink = <<>>
    /\ gen200 = {}
    /\ events_processed = 0
    /\ lost = {}
    /\ consumer = Started
    /\ run = 1
    /\ firstRows = 0

\* run_replay_mode started again with the same --hours range after the first
\* run has ended: a new consumer, offsets_for_times and seek put every
\* partition back at the first record of the range; the sink keeps its rows.
ReplayAgain ==
    /\ run = 1
    /\ wk[Replayer].pc = "stopped"
    /\ run' = 2
    /\ firstRows' = Len(sink)
    /\ log' = retained
    /\ wk' = [wk EXCEPT ![Replayer] = Idle]
    /\ events_processed' = 0
    /\ consumer' = Started
    /\ UNCHANGED <<produced, owner, readSeq, memo, sink, gen200, user_filter, lost,
            retained>>
    /\ UNCHANGED <<keyVars, cacheVars, genVars, svcVars, viewVars, raceVars, threadVars>>

RerunNext ==
    \/ ReplayIngest
    \/ Enrich(Replayer)
    \/ Proximity(Replayer)
    \/ Sink(Replayer)
    \/ ReplayAgain
(***************************************************************************)
(* Part 2.  Text.  A text is a sequence of one-character strings; the      *)
(* model's alphabet is ASCII, for which UTF-8 has one byte per character.  *)
(***************************************************************************)

LowerLetters == <<"a", "b", "c", "d", "e", "f", "g", "h", "i", "j", "k", "l", "m",
                  "n", "o", "p", "q", "r", "s", "t", "u", "v", "w", "x", "y", "z">>
UpperLetters == <<"A", "B", "C", "D", "E", "F", "G", "H", "I", "J", "K", "L", "M",
                  "N", "O", "P", "Q", "R", "S", "T", "U", "V", "W", "X", "Y", "Z">>
DigitChars == <<"0", "1", "2", "3", "4", "5", "6", "7", "8", "9">>

IndexIn(seq, c) == CHOOSE i \in 1..Len(seq) : seq[i] = c
IsIn(seq, c) == \E i \in 1..Len(seq) : seq[i] = c

\* The one character of the model's texts outside ASCII: e with a grave accent.
EGrave == "e-grave"

PunctChars == <<" ", "!", "\"", "'", ",", "-", ".", ":", "?", "[", "\\", "]", "{", "}">>
AllChars == LowerLetters \o UpperLetters \o DigitChars \o PunctChars
AsciiSet == {AllChars[i] : i \in 1..Len(AllChars)}
CharSet == AsciiSet \cup {EGrave}

\* The code point of a character, as a table.
CodePoints ==
    [c \in CharSet |->
        IF IsIn(LowerLetters, c) THEN 96 + IndexIn(LowerLetters, c)
        ELSE IF IsIn(UpperLetters, c) THEN 64 + IndexIn(UpperLetters, c)
        ELSE IF IsIn(DigitChars, c) THEN 47 + IndexIn(DigitChars, c)
        ELSE CASE c = " " -> 32 [] c = "!" -> 33 [] c = "\"" -> 34 [] c = "'" -> 39
               [] c = "," -> 44 [] c = "-" -> 45 [] c = "." -> 46 [] c = ":" -> 58
               [] c = "?" -> 63 [] c = "[" -> 91 [] c = "\\" -> 92 [] c = "]" -> 93
               [] c = "{" -> 123 [] c = "}" -> 125 [] c = EGrave -> 232]
CodePoint(c) == CodePoints[c]

\* The ASCII character of a byte, as a table.
AsciiChars ==
    [b \in {CodePoints[c] : c \in AsciiSet} |-> CHOOSE c \in AsciiSet : CodePoints[c] = b]
CharOf(b) == AsciiChars[b]

\* str.encode('utf-8'): one byte for an ASCII character, two for EGrave.
Utf8Bytes(c) == IF c = EGrave THEN <<195, 168>> ELSE <<CodePoint(c)>>

RECURSIVE Utf8Encode(_)
Utf8Encode(text) ==
    IF text = <<>> THEN <<>> ELSE Utf8Bytes(Head(text)) \o Utf8Encode(Tail(text))

\* bytes.decode('utf-8') of bytes that str.encode produced.
RECURSIVE Utf8Decode(_)
Utf8Decode(bytes) ==
    IF bytes = <<>> THEN <<>>
    ELSE IF Len(bytes) >= 2 /\ bytes[1] = 195 /\ bytes[2] = 168
    THEN <<EGrave>> \o Utf8Decode(SubSeq(bytes, 3, Len(bytes)))
    ELSE <<CharOf(bytes[1])>> \o Utf8Decode(Tail(bytes))

\* str.lower()
LowerChars ==
    [c \in CharSet |->
        IF IsIn(UpperLetters, c) THEN LowerLetters[IndexIn(UpperLetters, c)] ELSE c]
LowerChar(c) == LowerChars[c]
Lower(text) == [i \in 1..Len(text) |-> LowerChar(text[i])]

\* str.strip()
RECURSIVE Strip(_)
Strip(text) ==
    IF text = <<>> THEN text
    ELSE IF Head(text) = " " THEN Strip(Tail(text))
    ELSE IF text[Len(text)] = " " THEN Strip(SubSeq(text, 1, Len(text) - 1))
    ELSE text

\* str.split(sep): the pieces between the occurrences of sep.
RECURSIVE Split(_, _)
Split(text, sep) ==
    IF ~IsIn(text, sep) THEN <<text>>
    ELSE LET i == CHOOSE j \in 1..Len(text) :
                    text[j] = sep /\ \A k \in 1..(j - 1) : text[k] # sep
         IN <<SubSeq(text, 1, i - 1)>> \o Split(SubSeq(text, i + 1, Len(text)), sep)

\* sep.join(pieces)
RECURSIVE Join(_, _)
Join(pieces, sep) ==
    IF pieces = <<>> THEN <<>>
    ELSE IF Len(pieces) = 1 THEN pieces[1]
    ELSE pieces[1] \o <<sep>> \o Join(Tail(pieces), sep)

\* a < b for str: by code point, a proper prefix first.
RECURSIVE TextLess(_, _)
TextLess(a, b) ==
    IF b = <<>> THEN FALSE
    ELSE IF a = <<>> THEN TRUE
    ELSE IF Head(a) # Head(b) THEN CodePoint(Head(a)) < CodePoint(Head(b))
    ELSE TextLess(Tail(a), Tail(b))

\* sorted(list of str)
RECURSIVE Insert(_, _)
Insert(x, sortedList) ==
    IF sortedList = <<>> THEN <<x>>
    ELSE IF TextLess(x, Head(sortedList)) THEN <<x>> \o sortedList
    ELSE <<Head(sortedList)>> \o Insert(x, Tail(sortedList))

RECURSIVE Sorted(_)
Sorted(list) == IF list = <<>> THEN <<>> ELSE Insert(Head(list), Sorted(Tail(list)))

\* str(n) of an integer n >= 0
RECURSIVE Digits(_)
Digits(n) ==
    IF n < 10 THEN <<DigitChars[n + 1]>> ELSE Digits(n \div 10) \o <<DigitChars[(n % 10) + 1]>>

\* The pieces of a list that satisfy a test, in order.
RECURSIVE NonEmptyStripped(_)
NonEmptyStripped(pieces) ==
    IF pieces = <<>> THEN <<>>
    ELSE (IF Strip(Head(pieces)) # <<>> THEN <<Lower(Strip(Head(pieces)))>> ELSE <<>>)
            \o NonEmptyStripped(Tail(pieces))

(***************************************************************************)
(* Part 3.  The cache fingerprint of the message generator.                *)
(***************************************************************************)

\* hashlib.md5(text.encode()).hexdigest(): the digest is kept as the text it
\* was computed from, which takes MD5 to have no collisions.
Md5Hex(text) == [md5 |-> text]

\* A key that keeps the interests in the order they were given.
CombinedKeyUnsorted(user_params, poi_params) ==
    LET age == user_params.age
        age_range == Digits((age \div 5) * 5) \o <<"-">> \o Digits(((age \div 5) * 5) + 4)
        normalized_interests == Join(NonEmptyStripped(Split(user_params.interests,
                ",")), ",")
    IN age_range \o <<":">> \o Lower(user_params.profession) \o <<":">> \o normalized_interests
            \o <<":">> \o Lower(poi_params.name) \o <<":">> \o Lower(poi_params.category)

\* generate_cache_key: the text that is hashed.
CombinedKey(user_params, poi_params) ==
    LET age == user_params.age
        age_range == Digits((age \div 5) * 5) \o <<"-">> \o Digits(((age \div 5) * 5) + 4)
        interests_list == Sorted(NonEmptyStripped(Split(user_params.interests, ",")))
        normalized_interests == Join(interests_list, ",")
        profession == Lower(user_params.profession)
        poi_name == Lower(poi_params.name)
        poi_category == Lower(poi_params.category)
    IN age_range \o <<":">> \o profession \o <<":">> \o normalized_interests
            \o <<":">> \o poi_name \o <<":">> \o poi_category

generate_cache_key(user_params, poi_params) == Md5Hex(CombinedKey(user_params,
        poi_params))

User(age, profession, interests) ==
    [age |-> age, profession |-> profession, interests |-> interests]
Poi(name, category, description) ==
    [name |-> name, category |-> category, description |-> description]

\* The requests generate_cache_key is applied to: ages of two buckets,
\* professions and interests with ':' and ',', and spellings that differ in
\* case, spacing, order and empty items.
KeyRequests ==
    {[user |-> User(a, p, i), poi |-> Poi(n, c, <<>>)] :
        a \in {29, 30, 34},
        p \in {<<"a">>, <<"A">>, <<"a", ":", "b">>},
        i \in {<<"c">>, <<"b", ":", "c">>, <<"b", ",", "c">>, <<"c", ",", " ", "B",
                " ">>, <<",", "C">>},
        n \in {<<"x">>, <<"X">>},
        c \in {<<"b", "a", "r">>, <<"B", "a", "r">>}}

KeyInit ==
    /\ reqA \in KeyRequests
    /\ reqB \in KeyRequests
    /\ keyA = None
    /\ keyB = None

KeyQuiet ==
    /\ reqA = None
    /\ reqB = None
    /\ keyA = None
    /\ keyB = None

ComputeKeyA ==
    /\ keyA = None
    /\ keyA' = generate_cache_key(reqA.user, reqA.poi)
    /\ UNCHANGED <<reqA, reqB, keyB>>
    /\ KeyOnly

ComputeKeyB ==
    /\ keyB = None
    /\ keyB' = generate_cache_key(reqB.user, reqB.poi)
    /\ UNCHANGED <<reqA, reqB, keyA>>
    /\ KeyOnly

KeyNext == ComputeKeyA \/ ComputeKeyB

(***************************************************************************)
(* Part 3.  Python values and JSON.  A value carries its type: t is one of *)
(* "none", "bool", "int", "str", "dict", "list", "datetime"; values of     *)
(* different types differ.  A dict maps key texts to values.               *)
(***************************************************************************)

PyNone == [t |-> "none", v |-> 0]
PyBool(b) == [t |-> "bool", v |-> b]
PyNum(n) == [t |-> "int", v |-> n]
PyText(text) == [t |-> "str", v |-> text]
PyDict(f) == [t |-> "dict", v |-> f]
PyList(items) == [t |-> "list", v |-> items]
PyDatetime(at) == [t |-> "datetime", v |-> at]

\* bool(value): what `if value:` tests.
Truthy(val) ==
    CASE val.t = "none" -> FALSE
      [] val.t = "bool" -> val.v
      [] val.t = "int" -> val.v # 0
      [] val.t = "str" -> val.v # <<>>
      [] val.t = "dict" -> DOMAIN val.v # {}
      [] val.t = "list" -> val.v # <<>>
      [] val.t = "datetime" -> TRUE

\* The body of a JSON string: a quote and a backslash are escaped.
RECURSIVE JsonEscape(_)
JsonEscape(text) ==
    IF text = <<>> THEN <<>>
    ELSE (IF Head(text) \in {"\"", "\\"} THEN <<"\\", Head(text)>> ELSE <<Head(text)>>)
         \o JsonEscape(Tail(text))

JsonQuote(text) == <<"\"">> \o JsonEscape(text) \o <<"\"">>

\* The keys of a dict as a list, smallest first.
RECURSIVE KeysInOrder(_)
KeysInOrder(S) ==
    IF S = {} THEN <<>>
    ELSE LET m == CHOOSE x \in S : \A y \in S \ {x} : TextLess(x, y)
         IN <<m>> \o KeysInOrder(S \ {m})

\* The values json.dumps writes; a datetime makes it raise TypeError.
RECURSIVE Dumpable(_)
Dumpable(val) ==
    CASE val.t = "datetime" -> FALSE
      [] val.t = "dict" -> \A k \in DOMAIN val.v : Dumpable(val.v[k])
      [] val.t = "list" -> \A i \in 1..Len(val.v) : Dumpable(val.v[i])
      [] OTHER -> TRUE

\* json.dumps(value), with the default separators ", " and ": ".  The members
\* of a dict are written in key order (Python writes them in insertion order;
\* dict equality does not depend on it).
RECURSIVE json_dumps(_)
json_dumps(val) ==
    CASE val.t = "none" -> <<"n", "u", "l", "l">>
      [] val.t = "bool" -> IF val.v THEN <<"t", "r", "u", "e">>
                           ELSE <<"f", "a", "l", "s", "e">>
      [] val.t = "int" -> IF val.v < 0 THEN <<"-">> \o Digits(0 - val.v) ELSE Digits(val.v)
      [] val.t = "str" -> JsonQuote(val.v)
      [] val.t = "dict" ->
            LET keys == KeysInOrder(DOMAIN val.v)
                member(i) == JsonQuote(keys[i]) \o <<":",
                        " ">> \o json_dumps(val.v[keys[i]])
                RECURSIVE members(_)
                members(i) ==
                    IF i > Len(keys) THEN <<>>
                    ELSE member(i) \o (IF i < Len(keys) THEN <<",", " ">> ELSE <<>>)
                         \o members(i + 1)
            IN <<"{">> \o members(1) \o <<"}">>
      [] val.t = "list" ->
            LET RECURSIVE items(_)
                items(i) ==
                    IF i > Len(val.v) THEN <<>>
                    ELSE json_dumps(val.v[i])
                         \o (IF i < Len(val.v) THEN <<",", " ">> ELSE <<>>)
                         \o items(i + 1)
            IN <<"[">> \o items(1) \o <<"]">>

\* json.loads: a recursive-descent reader.  A step returns the value and the
\* index after it, or fails.
JsonFail == [ok |-> FALSE, val |-> PyNone, next |-> 0]
JsonOk(val, next) == [ok |-> TRUE, val |-> val, next |-> next]

RECURSIVE SkipWs(_, _)
SkipWs(text, i) ==
    IF i <= Len(text) /\ text[i] = " " THEN SkipWs(text, i + 1) ELSE i

StartsWith(text, i, lit) ==
    /\ i + Len(lit) - 1 <= Len(text)
    /\ SubSeq(text, i, i + Len(lit) - 1) = lit

\* The string whose opening quote is just before i.  The escapes the model's
\* texts can hold are \" and \\.
RECURSIVE ScanString(_, _, _)
ScanString(text, i, acc) ==
    IF i > Len(text) THEN JsonFail
    ELSE IF text[i] = "\"" THEN JsonOk(PyText(acc), i + 1)
    ELSE IF text[i] = "\\"
    THEN IF i + 1 <= Len(text) /\ text[i + 1] \in {"\"", "\\"}
         THEN ScanString(text, i + 2, Append(acc, text[i + 1]))
         ELSE JsonFail
    ELSE ScanString(text, i + 1, Append(acc, text[i]))

\* The run of digits at i: a leading 0 stands alone.
RECURSIVE ScanDigits(_, _, _)
ScanDigits(text, i, acc) ==
    IF i <= Len(text) /\ IsIn(DigitChars, text[i])
    THEN ScanDigits(text, i + 1, 10 * acc + (IndexIn(DigitChars, text[i]) - 1))
    ELSE JsonOk(PyNum(acc), i)

ScanNumber(text, i) ==
    IF text[i] = "0" THEN JsonOk(PyNum(0), i + 1) ELSE ScanDigits(text, i, 0)

RECURSIVE ParseValue(_, _)
RECURSIVE ParseMembers(_, _, _)
RECURSIVE ParseItems(_, _, _)
ParseValue(text, i0) ==
    LET i == SkipWs(text, i0) IN
    IF i > Len(text) THEN JsonFail
    ELSE IF StartsWith(text, i, <<"n", "u", "l", "l">>) THEN JsonOk(PyNone, i + 4)
    ELSE IF StartsWith(text, i, <<"t", "r", "u", "e">>) THEN JsonOk(PyBool(TRUE), i + 4)
    ELSE IF StartsWith(text, i, <<"f", "a", "l", "s", "e">>) THEN JsonOk(PyBool(FALSE),
            i + 5)
    ELSE IF text[i] = "\"" THEN ScanString(text, i + 1, <<>>)
    ELSE IF IsIn(DigitChars, text[i]) THEN ScanNumber(text, i)
    ELSE IF text[i] = "-" /\ i + 1 <= Len(text) /\ IsIn(DigitChars, text[i + 1])
    THEN LET r == ScanNumber(text, i + 1) IN JsonOk(PyNum(0 - r.val.v), r.next)
    ELSE IF text[i] = "{"
    THEN LET j == SkipWs(text, i + 1) IN
         IF j <= Len(text) /\ text[j] = "}" THEN JsonOk(PyDict(EmptyDict), j + 1)
         ELSE ParseMembers(text, j, EmptyDict)
    ELSE IF text[i] = "["
    THEN LET j == SkipWs(text, i + 1) IN
         IF j <= Len(text) /\ text[j] = "]" THEN JsonOk(PyList(<<>>), j + 1)
         ELSE ParseItems(text, j, <<>>)
    ELSE JsonFail

\* The items of an array from i on.
ParseItems(text, i, acc) ==
    LET val == ParseValue(text, i) IN
    IF ~val.ok THEN JsonFail
    ELSE LET e == SkipWs(text, val.next) IN
         IF e > Len(text) THEN JsonFail
         ELSE IF text[e] = "]" THEN JsonOk(PyList(Append(acc, val.val)), e + 1)
         ELSE IF text[e] = "," THEN ParseItems(text, e + 1, Append(acc, val.val))
         ELSE JsonFail

\* The members of an object from i on, i at the quote of a member's key.
ParseMembers(text, i, acc) ==
    IF i > Len(text) \/ text[i] # "\"" THEN JsonFail
    ELSE LET k == ScanString(text, i + 1, <<>>) IN
         IF ~k.ok THEN JsonFail
         ELSE LET c == SkipWs(text, k.next) IN
              IF c > Len(text) \/ text[c] # ":" THEN JsonFail
              ELSE LET val == ParseValue(text, c + 1) IN
                   IF ~val.ok THEN JsonFail
                   ELSE LET acc2 == [x \in DOMAIN acc \cup {k.val.v} |->
                                        IF x = k.val.v THEN val.val ELSE acc[x]]
                            e == SkipWs(text, val.next)
                        IN IF e > Len(text) THEN JsonFail
                           ELSE IF text[e] = "}" THEN JsonOk(PyDict(acc2), e + 1)
                           ELSE IF text[e] = ","
                           THEN ParseMembers(text, SkipWs(text, e + 1), acc2)
                           ELSE JsonFail

\* The whole text was one value, r, or json.loads raises JSONDecodeError.
Loaded(text, r) ==
    IF r.ok /\ SkipWs(text, r.next) = Len(text) + 1
    THEN [ok |-> TRUE, val |-> r.val]
    ELSE [ok |-> FALSE, val |-> PyNone]

JsonText(text) == Loaded(text, ParseValue(text, 1))

\* json.loads(bytes): the value, or JSONDecodeError (ok = FALSE).
json_loads(bytes) == JsonText(Utf8Decode(bytes))

(***************************************************************************)
(* Part 4.  The cache backends.  A cache call is one step: MemoryCache     *)
(* runs every method under its lock, and a RedisCache method is one        *)
(* command to the server.                                                  *)
(***************************************************************************)

\* CACHE_TTL, in ticks of the model's clock (86400 seconds by default).
CACHE_TTL == 2

\* The clock stops at MaxTime.
MaxTime == 5

\* The ttl argument of set: None, or a number of ticks.
TtlArgs == {PyNone, PyNum(1)}

\* ttl if ttl is not None else self.default_ttl
EffectiveTtl(ttl, default_ttl) == IF ttl.t = "none" THEN default_ttl ELSE ttl.v

\* MemoryCache.get without the expiry test.
mem_get_unexpiring(c, t, key) ==
    IF key \notin DOMAIN c THEN [cache |-> c, result |-> PyNone]
    ELSE [cache |-> c, result |-> c[key].value]

\* MemoryCache.get: the cache afterwards and the value returned.
mem_get(c, t, key) ==
    IF key \notin DOMAIN c THEN [cache |-> c, result |-> PyNone]
    ELSE IF t > c[key].expire_time THEN [cache |-> Without(c, key), result |-> PyNone]
    ELSE [cache |-> c, result |-> c[key].value]

\* MemoryCache.set
mem_set(c, t, key, value, ttl, default_ttl) ==
    LET expire_time == t + EffectiveTtl(ttl, default_ttl)
        entry == [value |-> value, expire_time |-> expire_time]
    IN [cache |-> [k \in DOMAIN c \cup {key} |-> IF k = key THEN entry ELSE c[k]],
        result |-> PyBool(TRUE)]

\* MemoryCache.delete
mem_delete(c, key) ==
    IF key \in DOMAIN c THEN [cache |-> Without(c, key), result |-> PyBool(TRUE)]
    ELSE [cache |-> c, result |-> PyBool(FALSE)]

\* MemoryCache.exists
mem_exists(c, t, key) ==
    IF key \notin DOMAIN c THEN [cache |-> c, result |-> PyBool(FALSE)]
    ELSE IF t > c[key].expire_time THEN [cache |-> Without(c, key),
            result |-> PyBool(FALSE)]
    ELSE [cache |-> c, result |-> PyBool(TRUE)]

\* MemoryCache.info: an entry counts as active while expire_time > time.time().
mem_info(c, t) ==
    LET active_keys == Cardinality({k \in DOMAIN c : c[k].expire_time > t}) IN
    PyDict([status |-> PyText(<<"i", "n", "-", "m", "e", "m", "o", "r", "y">>),
            total_keys |-> PyNum(Cardinality(DOMAIN c)),
            active_keys |-> PyNum(active_keys),
            expired_keys |-> PyNum(Cardinality(DOMAIN c) - active_keys)])

\* A pass of the reaper that deletes nothing.
mem_cleanup_idle(c, t) == c

\* One pass of MemoryCache._cleanup_expired_keys.
mem_cleanup(c, t) == [k \in {j \in DOMAIN c : ~(t > c[j].expire_time)} |-> c[k]]

\* An exception, as the value a call ends with in place of a return value.
Raised(exc) == [t |-> "raise", v |-> exc]
IsRaised(val) == val.t = "raise"

\* A handler that catches nothing.
CaughtNever(outcome, fallback) == outcome

\* try: ... except Exception: return fallback
Caught(outcome, fallback) == IF IsRaised(outcome) THEN fallback ELSE outcome

\* The Redis server answers, refuses the connection, or lets the socket
\* time out; redis-py raises in the last two cases.
ServerStates == {"up", "down", "stalled"}
ServerError(srv) == Raised(IF srv = "stalled" THEN "TimeoutError" ELSE "ConnectionError")

\* The bytes a UTF-8 decoder accepts.
RECURSIVE Utf8Valid(_)
Utf8Valid(bytes) ==
    IF bytes = <<>> THEN TRUE
    ELSE IF Len(bytes) >= 2 /\ bytes[1] = 195 /\ bytes[2] = 168
    THEN Utf8Valid(SubSeq(bytes, 3, Len(bytes)))
    ELSE bytes[1] \in DOMAIN AsciiChars /\ Utf8Valid(Tail(bytes))

\* The Redis server: a key is gone once the clock is past its expiry.
RedisLive(store, t, key) == key \in DOMAIN store /\ ~(t > store[key].expire_at)

\* GET: the bytes of a live key, else nil.
redis_GET(store, t, key) ==
    IF RedisLive(store, t, key) THEN [nil |-> FALSE, bytes |-> store[key].bytes]
    ELSE [nil |-> TRUE, bytes |-> <<>>]

\* SETEX key ttl bytes
redis_SETEX(store, t, key, ttl, bytes) ==
    [k \in DOMAIN store \cup {key} |->
        IF k = key THEN [bytes |-> bytes, expire_at |-> t + ttl] ELSE store[k]]

\* json.loads(value), or value.decode('utf-8') on JSONDecodeError.
LoadedOrText(parsed, bytes) == IF parsed.ok THEN parsed.val ELSE PyText(Utf8Decode(bytes))

\* The value RedisCache.get makes of the server's answer: nil and empty
\* bytes are falsy; json.loads raises UnicodeDecodeError, which is not a
\* JSONDecodeError, on bytes that are not UTF-8.
Answered(value) ==
    IF value.nil \/ value.bytes = <<>> THEN PyNone
    ELSE IF ~Utf8Valid(value.bytes) THEN Raised("UnicodeDecodeError")
    ELSE LoadedOrText(json_loads(value.bytes), value.bytes)

\* The try block of RedisCache.get.
redis_get(store, t, key) == Answered(redis_GET(store, t, key))

\* RedisCache.get without its except clause.
rc_get_unguarded(cl, srv, store, t, key) ==
    IF cl = "none" THEN PyNone
    ELSE IF srv = "up" THEN redis_get(store, t, key) ELSE ServerError(srv)

\* RedisCache.get
rc_get(cl, srv, store, t, key) ==
    IF cl = "none" THEN PyNone
    ELSE Caught(IF srv = "up" THEN redis_get(store, t, key) ELSE ServerError(srv), PyNone)

\* The try block of RedisCache.set with the server answering: the store
\* afterwards and the value returned.
redis_set(store, t, key, value, ttl, default_ttl) ==
    IF ~Dumpable(value) THEN [store |-> store, result |-> Raised("TypeError")]
    ELSE [store |-> redis_SETEX(store, t, key, EffectiveTtl(ttl, default_ttl),
                                Utf8Encode(IF value.t = "str" THEN value.v
                                           ELSE json_dumps(value))),
          result |-> PyBool(TRUE)]

\* RedisCache.set.  A command sent to a stalled server is carried out
\* (landed) or not; the client sees the timeout either way.
rc_set(cl, srv, landed, store, t, key, value, ttl, default_ttl) ==
    IF cl = "none" THEN [store |-> store, result |-> PyBool(FALSE)]
    ELSE IF srv = "up" \/ ~Dumpable(value)
    THEN [store |-> redis_set(store, t, key, value, ttl, default_ttl).store,
          result |-> Caught(redis_set(store, t, key, value, ttl, default_ttl).result,
                            PyBool(FALSE))]
    ELSE [store |-> IF landed THEN redis_set(store, t, key, value, ttl, default_ttl).store
                    ELSE store,
          result |-> Caught(ServerError(srv), PyBool(FALSE))]

\* The try block of RedisCache.delete with the server answering.
redis_delete(store, t, key) ==
    [store |-> Without(store, key), result |-> PyBool(RedisLive(store, t, key))]

\* RedisCache.delete
rc_delete(cl, srv, landed, store, t, key) ==
    IF cl = "none" THEN [store |-> store, result |-> PyBool(FALSE)]
    ELSE IF srv = "up" THEN redis_delete(store, t, key)
    ELSE [store |-> IF landed THEN Without(store, key) ELSE store,
          result |-> Caught(ServerError(srv), PyBool(FALSE))]

\* The try block of RedisCache.exists with the server answering.
redis_exists(store, t, key) == PyBool(RedisLive(store, t, key))

\* RedisCache.exists
rc_exists(cl, srv, store, t, key) ==
    IF cl = "none" THEN PyBool(FALSE)
    ELSE Caught(IF srv = "up" THEN redis_exists(store, t, key) ELSE ServerError(srv),
                PyBool(FALSE))

\* What INFO answers: counters, possibly absent, possibly not numbers.
InfoReplies ==
    {EmptyDict,
     [k \in {"keyspace_hits", "keyspace_misses"} |-> PyNum(0)],
     [k \in {"keyspace_hits", "keyspace_misses", "uptime_in_days"} |-> PyNum(1)],
     [k \in {"keyspace_hits"} |-> PyText(<<"x">>)]}

\* info.get("keyspace_hits", 0) / (info.get("keyspace_hits", 0) +
\* info.get("keyspace_misses", 1) or 1), as numerator and denominator.
HitRate(hits, misses) ==
    IF hits.t # "int" \/ misses.t # "int" THEN Raised("TypeError")
    ELSE [t |-> "ratio",
          v |-> <<hits.v, IF hits.v + misses.v = 0 THEN 1 ELSE hits.v + misses.v>>]

StatusRecord(status) == PyDict([status |-> status])

\* The try block of RedisCache.info with the server answering.
redis_info(reply, rate) ==
    IF IsRaised(rate) THEN rate
    ELSE PyDict([status |-> "connected",
                 used_memory_human |-> DictGet(reply, "used_memory_human", PyNone),
                 connected_clients |-> DictGet(reply, "connected_clients", PyNone),
                 uptime_in_days |-> DictGet(reply, "uptime_in_days", PyNone),
                 hit_rate |-> rate])

\* RedisCache.info
rc_info(cl, srv, reply) ==
    IF cl = "none" THEN StatusRecord("disconnected")
    ELSE Caught(IF srv = "up"
                THEN redis_info(reply, HitRate(DictGet(reply, "keyspace_hits", PyNum(0)),
                                               DictGet(reply, "keyspace_misses",
                                                       PyNum(1))))
                ELSE ServerError(srv),
                StatusRecord("error"))

\* RedisCache.__init__ keeping the client whatever the ping did.
RedisCache_init_unchecked(ping) == "connected"

\* RedisCache.__init__: self.client, None when the ping raised.
RedisCache_init(ping) == IF ping = "pong" THEN "connected" ELSE "none"

\* What the ping of __init__ meets.
PingOf(srv) == CASE srv = "up" -> "pong" [] srv = "down" -> "refused" [] srv = "stalled" -> "timeout"

\* Keys and values of the calls made on a cache used on its own.
CacheKeys == {"k1", "k2"}
RedisKeys == {"k1"}
MemValues == {PyText(<<"a">>), PyText(<<"b">>)}
RedisValues ==
    {PyText(<<>>), PyText(<<"h", "i">>), PyText(<<"1", "2", "3">>),
     PyText(<<"t", "r", "u", "e">>), PyText(<<"n", "u", "l", "l">>),
     PyDict([k \in {<<"a">>} |-> PyNum(1)]), PyDict(EmptyDict)}

\* Ghosts: the set a key was last given, and the latest call.
NoSet == [value |-> PyNone, at |-> 0, ttl |-> 0]
SetOf(value, at, ttl) == [value |-> value, at |-> at, ttl |-> ttl]
NoCall ==
    [op |-> "none", key |-> "", result |-> PyNone, at |-> 0, had |-> FALSE,
            last |-> NoSet,
     srv |-> "up", raw |-> <<>>]
Call(op, key, result) ==
    [op |-> op, key |-> key, result |-> result, at |-> now,
     had |-> key \in DOMAIN lastSet, last |-> DictGet(lastSet, key, NoSet),
     srv |-> server, raw |-> redis_GET(rstore, now, key).bytes]

InfoCall(op, result) ==
    [op |-> op, key |-> "", result |-> result, at |-> 0, had |-> FALSE, last |-> NoSet,
     srv |-> server, raw |-> <<>>]

CacheQuiet ==
    /\ now = 0
    /\ cache = EmptyDict
    /\ rstore = EmptyDict
    /\ lastSet = EmptyDict
    /\ opres = NoCall

\* time.time() advances.
Tick ==
    /\ now < MaxTime
    /\ now' = now + 1
    /\ UNCHANGED <<cache, rstore, lastSet, opres>>
    /\ CacheOnly

MemoryCache_get(key) ==
    LET r == mem_get(cache, now, key) IN
    /\ cache' = r.cache
    /\ opres' = Call("get", key, r.result)
    /\ UNCHANGED <<now, rstore, lastSet>>
    /\ CacheOnly

MemoryCache_set(key, value, ttl) ==
    LET r == mem_set(cache, now, key, value, ttl, CACHE_TTL) IN
    /\ cache' = r.cache
    /\ lastSet' = DictUpdate(lastSet, [k \in {key} |->
                        SetOf(value, now, EffectiveTtl(ttl, CACHE_TTL))])
    /\ opres' = Call("set", key, r.result)
    /\ UNCHANGED <<now, rstore>>
    /\ CacheOnly

MemoryCache_delete(key) ==
    LET r == mem_delete(cache, key) IN
    /\ cache' = r.cache
    /\ lastSet' = Without(lastSet, key)
    /\ opres' = Call("delete", key, r.result)
    /\ UNCHANGED <<now, rstore>>
    /\ CacheOnly

MemoryCache_exists(key) ==
    LET r == mem_exists(cache, now, key) IN
    /\ cache' = r.cache
    /\ opres' = Call("exists", key, r.result)
    /\ UNCHANGED <<now, rstore, lastSet>>
    /\ CacheOnly

MemoryCache_cleanup_expired_keys ==
    /\ cache' = mem_cleanup(cache, now)
    /\ UNCHANGED <<now, rstore, lastSet, opres>>
    /\ CacheOnly

MemoryCache_info ==
    /\ opres' = [InfoCall("info", mem_info(cache, now)) EXCEPT !.at = now]
    /\ UNCHANGED <<now, cache, rstore, lastSet>>
    /\ CacheOnly

MemNext ==
    \/ Tick
    \/ \E key \in CacheKeys : MemoryCache_get(key)
    \/ \E key \in CacheKeys, value \in MemValues, ttl \in TtlArgs :
            MemoryCache_set(key, value, ttl)
    \/ \E key \in CacheKeys : MemoryCache_delete(key)
    \/ \E key \in CacheKeys : MemoryCache_exists(key)
    \/ MemoryCache_cleanup_expired_keys

RedisCache_get(key) ==
    /\ opres' = Call("get", key, rc_get(client, server, rstore, now, key))
    /\ UNCHANGED <<now, cache, rstore, lastSet>>
    /\ CacheOnly

\* Whether a command reaches the keyspace: always when the server is up,
\* never when it refuses, either way when it stalls.
Landings == IF server = "stalled" THEN BOOLEAN ELSE {server = "up"}

RedisCache_set(key, value, ttl) ==
    \E landed \in Landings :
    LET r == rc_set(client, server, landed, rstore, now, key, value, ttl, CACHE_TTL) IN
    /\ rstore' = r.store
    /\ lastSet' = IF r.store = rstore /\ r.result # PyBool(TRUE) THEN lastSet
                  ELSE DictUpdate(lastSet, [k \in {key} |->
                            SetOf(value, now, EffectiveTtl(ttl, CACHE_TTL))])
    /\ opres' = Call("set", key, r.result)
    /\ UNCHANGED <<now, cache>>
    /\ CacheOnly

RedisCache_delete(key) ==
    \E landed \in Landings :
    LET r == rc_delete(client, server, landed, rstore, now, key) IN
    /\ rstore' = r.store
    /\ lastSet' = IF client = "none" \/ ~landed THEN lastSet ELSE Without(lastSet, key)
    /\ opres' = Call("delete", key, r.result)
    /\ UNCHANGED <<now, cache>>
    /\ CacheOnly

RedisCache_exists(key) ==
    /\ opres' = Call("exists", key, rc_exists(client, server, rstore, now, key))
    /\ UNCHANGED <<now, cache, rstore, lastSet>>
    /\ CacheOnly

RedisNext ==
    \/ Tick
    \/ \E key \in RedisKeys : RedisCache_get(key)
    \/ \E key \in RedisKeys, value \in RedisValues, ttl \in TtlArgs :
            RedisCache_set(key, value, ttl)
    \/ \E key \in RedisKeys : RedisCache_delete(key)
    \/ \E key \in RedisKeys : RedisCache_exists(key)


RedisCache_info ==
    \E reply \in InfoReplies :
    /\ opres' = InfoCall("info", rc_info(client, server, reply))
    /\ UNCHANGED <<now, cache, rstore, lastSet>>
    /\ CacheOnly

\* The server goes down, stalls or comes back.
ServerChange(srv) ==
    /\ srv # server
    /\ server' = srv
    /\ UNCHANGED <<pinged, client, enabled, qbackend, qcache, qresp>>
    /\ UNCHANGED cacheVars
    /\ SvcOnly

\* Bytes another client of the server leaves under a key: not UTF-8, cut
\* short inside a character, or text that is not JSON.
ForeignBytes == {<<255>>, <<195>>, <<104, 105>>}

ForeignWrite(key, bytes) ==
    /\ server = "up"
    /\ rstore' = redis_SETEX(rstore, now, key, CACHE_TTL, bytes)
    /\ UNCHANGED <<now, cache, lastSet, opres>>
    /\ CacheOnly

\* A RedisCache over a server that may fail.
FaultValues == {PyText(<<"h", "i">>), PyList(<<>>), PyList(<<PyDatetime(0)>>)}
\* The clock of the runs with a failing server stops at FaultMaxTime.
FaultMaxTime == 3
FaultNext ==
    \/ (now < FaultMaxTime /\ Tick)
    \/ \E key \in RedisKeys : RedisCache_get(key)
    \/ \E key \in RedisKeys, value \in FaultValues : RedisCache_set(key, value, PyNone)
    \/ \E key \in RedisKeys : RedisCache_delete(key)
    \/ \E key \in RedisKeys : RedisCache_exists(key)
    \/ RedisCache_info
    \/ \E srv \in ServerStates : ServerChange(srv)
    \/ \E key \in RedisKeys, bytes \in ForeignBytes : ForeignWrite(key, bytes)

\* ---------------------------------------------------------------------
\* MemoryCache used by several threads: each method and each pass of the
\* reaper, one statement at a time, inside `with self.lock`.
\* ---------------------------------------------------------------------
RequestThreads == {"t1", "t2"}
cleanup_thread == "cleanup_thread"
AllThreads == RequestThreads \cup {cleanup_thread}
ThreadKeys == {"k1", "k2"}
ThreadTtl == 1
ThreadMaxTime == 3

Outside == [pc |-> "idle", op |-> "", key |-> "", value |-> PyNone, expire_time |-> 0,
            current_time |-> 0, keys_to_delete |-> {}, result |-> PyNone, raised |-> ""]

ThreadsQuiet ==
    /\ lock = ""
    /\ thr = [t \in AllThreads |-> Outside]
    /\ renewed = EmptyDict

\* threading.RLock: free, or already held by the thread that asks.
AcquirableAlways(l, t) == TRUE
Acquirable(l, t) == l = "" \/ l = t

ThreadFrame == UNCHANGED <<pipeVars, keyVars, genVars, svcVars, rerunVars, viewVars,
                           raceVars, rstore, lastSet, opres>>

\* Leaving the with block, by return or by an exception.
Leave(t, result) == [thr[t] EXCEPT !.pc = "exit", !.result = result]
Throw(t, exc) == [thr[t] EXCEPT !.pc = "exit", !.raised = exc]

\* `with self.lock:` of get, set, delete, exists.
ThreadEnter(t, op, key, value) ==
    /\ thr[t].pc = "idle"
    /\ Acquirable(lock, t)
    /\ lock' = t
    /\ thr' = [thr EXCEPT ![t] = [Outside EXCEPT !.pc = "locked", !.op = op, !.key = key,
                                                 !.value = value,
                                                         !.raised = thr[t].raised]]
    /\ UNCHANGED <<now, cache, renewed>>
    /\ ThreadFrame

\* `if key not in self.cache: return` of get, exists and delete.
ThreadLookup(t) ==
    /\ thr[t].pc = "locked" /\ thr[t].op \in {"get", "exists", "delete"}
    /\ thr' = [thr EXCEPT ![t] =
            IF thr[t].key \notin DOMAIN cache
            THEN Leave(t, IF thr[t].op = "get" THEN PyNone ELSE PyBool(FALSE))
            ELSE [@ EXCEPT !.pc = IF thr[t].op = "delete" THEN "del" ELSE "read"]]
    /\ UNCHANGED <<now, cache, lock, renewed>>
    /\ ThreadFrame

\* `value, expire_time = self.cache[key]` of get and exists.
ThreadRead(t) ==
    /\ thr[t].pc = "read"
    /\ thr' = [thr EXCEPT ![t] =
            IF thr[t].key \notin DOMAIN cache THEN Throw(t, "KeyError")
            ELSE [@ EXCEPT !.pc = "check", !.value = cache[thr[t].key].value,
                           !.expire_time = cache[thr[t].key].expire_time]]
    /\ UNCHANGED <<now, cache, lock, renewed>>
    /\ ThreadFrame

\* `if expire_time is not None and time.time() > expire_time:` of get and exists.
ThreadCheck(t) ==
    /\ thr[t].pc = "check"
    /\ thr' = [thr EXCEPT ![t] =
            IF now > thr[t].expire_time THEN [@ EXCEPT !.pc = "del"]
            ELSE Leave(t, IF thr[t].op = "get" THEN thr[t].value ELSE PyBool(TRUE))]
    /\ UNCHANGED <<now, cache, lock, renewed>>
    /\ ThreadFrame

\* `del self.cache[key]` of get, exists and delete.
ThreadDel(t) ==
    /\ thr[t].pc = "del"
    /\ IF thr[t].key \notin DOMAIN cache
       THEN /\ thr' = [thr EXCEPT ![t] = Throw(t, "KeyError")]
            /\ UNCHANGED <<cache, renewed>>
       ELSE /\ thr' = [thr EXCEPT ![t] =
                    Leave(t, IF thr[t].op = "get" THEN PyNone
                             ELSE PyBool(thr[t].op = "delete"))]
            /\ cache' = Without(cache, thr[t].key)
            /\ renewed' = Without(renewed, thr[t].key)
    /\ UNCHANGED <<now, lock>>
    /\ ThreadFrame

\* `self.cache[key] = (value, time.time() + ttl)` of set.
ThreadStore(t) ==
    /\ thr[t].pc = "locked" /\ thr[t].op = "set"
    /\ LET key == thr[t].key
           over == key \in DOMAIN cache /\ now > cache[key].expire_time
       IN /\ cache' = mem_set(cache, now, key, thr[t].value, PyNum(ThreadTtl),
               CACHE_TTL).cache
          /\ renewed' = IF over THEN DictUpdate(renewed, [k \in {key} |-> now])
                        ELSE Without(renewed, key)
    /\ thr' = [thr EXCEPT ![t] = Leave(t, PyBool(TRUE))]
    /\ UNCHANGED <<now, lock>>
    /\ ThreadFrame

\* The end of the with block: the lock is released.
ThreadLeave(t) ==
    /\ thr[t].pc = "exit"
    /\ lock' = IF lock = t THEN "" ELSE lock
    /\ thr' = [thr EXCEPT ![t] =
            IF t = cleanup_thread /\ thr[t].raised # ""
            THEN [Outside EXCEPT !.pc = "dead", !.raised = thr[t].raised]
            ELSE [Outside EXCEPT !.raised = thr[t].raised]]
    /\ UNCHANGED <<now, cache, renewed>>
    /\ ThreadFrame

\* _cleanup_expired_keys: after sleep(60), `with self.lock:`.
ReaperEnter ==
    /\ thr[cleanup_thread].pc = "idle"
    /\ Acquirable(lock, cleanup_thread)
    /\ lock' = cleanup_thread
    /\ thr' = [thr EXCEPT ![cleanup_thread] = [Outside EXCEPT !.pc = "locked",
                                                               !.op = "cleanup"]]
    /\ UNCHANGED <<now, cache, renewed>>
    /\ ThreadFrame

\* current_time = time.time(); keys_to_delete = [...]
ReaperList ==
    /\ thr[cleanup_thread].pc = "locked"
    /\ thr' = [thr EXCEPT ![cleanup_thread] =
            [@ EXCEPT !.pc = "loop", !.current_time = now,
                      !.keys_to_delete = {k \in DOMAIN cache : now > cache[k].expire_time}]]
    /\ UNCHANGED <<now, cache, lock, renewed>>
    /\ ThreadFrame

\* for key in keys_to_delete: del self.cache[key]
ReaperDel ==
    /\ thr[cleanup_thread].pc = "loop"
    /\ IF thr[cleanup_thread].keys_to_delete = {}
       THEN /\ thr' = [thr EXCEPT ![cleanup_thread] = Leave(cleanup_thread, PyNone)]
            /\ UNCHANGED <<cache, renewed>>
       ELSE \E key \in thr[cleanup_thread].keys_to_delete :
            IF key \notin DOMAIN cache
            THEN /\ thr' = [thr EXCEPT ![cleanup_thread] = Throw(cleanup_thread,
                    "KeyError")]
                 /\ UNCHANGED <<cache, renewed>>
            ELSE /\ thr' = [thr EXCEPT ![cleanup_thread].keys_to_delete = @ \ {key}]
                 /\ cache' = Without(cache, key)
                 /\ renewed' = Without(renewed, key)
    /\ UNCHANGED <<now, lock>>
    /\ ThreadFrame

ThreadTick ==
    /\ now < ThreadMaxTime
    /\ now' = now + 1
    /\ UNCHANGED <<cache, threadVars>>
    /\ ThreadFrame

ThreadsNext ==
    \/ ThreadTick
    \/ \E t \in RequestThreads, key \in ThreadKeys :
            \/ \E op \in {"get", "exists", "delete"} : ThreadEnter(t, op, key, PyNone)
            \/ \E value \in MemValues : ThreadEnter(t, "set", key, value)
    \/ \E t \in RequestThreads :
            \/ ThreadLookup(t)
            \/ ThreadRead(t)
            \/ ThreadCheck(t)
            \/ ThreadDel(t)
            \/ ThreadStore(t)
            \/ ThreadLeave(t)
    \/ ReaperEnter
    \/ ReaperList
    \/ ReaperDel
    \/ ThreadLeave(cleanup_thread)
(***************************************************************************)
(* Part 5.  The message generator: POST /generate over the cache that      *)
(* cache_utils chose at import.  The handler is `async def` and calls the  *)
(* service synchronously, so a process serves one request at a time.       *)
(***************************************************************************)

\* Number of /generate requests the model serves.
MaxRequests == 3

ristorante == <<"r", "i", "s", "t", "o", "r", "a", "n", "t", "e">>
bar == <<"b", "a", "r">>
abbigliamento == <<"a", "b", "b", "i", "g", "l", "i", "a", "m", "e", "n", "t", "o">>
supermercato == <<"s", "u", "p", "e", "r", "m", "e", "r", "c", "a", "t", "o">>

\* MessageGeneratorService._get_fallback_message
get_fallback_message(shop_name, category) ==
    LET c == Lower(category) IN
    CASE c = ristorante ->
            <<"S", "e", "i", " ", "v", "i", "c", "i", "n", "o", " ", "a",
                    " ">> \o shop_name
            \o <<"!", " ", "U", "n", " ", "o", "t", "t", "i", "m", "o", " ", "p", "o",
                    "s", "t", "o", " ", "p", "e", "r", " ", "u", "n", "a", " ", "p",
                    "a", "u", "s", "a", " ", "p", "r", "a", "n", "z", "o", " ", "g",
                    "u", "s", "t", "o", "s", "a", ".">>
      [] c = bar ->
            shop_name \o <<" ", EGrave, " ", "a", " ", "p", "o", "c", "h", "i", " ",
                    "p", "a", "s", "s", "i", "!", " ", "C", "h", "e", " ", "n", "e",
                    " ", "d", "i", "c", "i", " ", "d", "i", " ", "u", "n", " ", "o",
                    "t", "t", "i", "m", "o", " ", "c", "a", "f", "f", EGrave, "?">>
      [] c = abbigliamento ->
            <<"D", "a", "i", " ", "u", "n", "'", "o", "c", "c", "h", "i", "a", "t",
                    "a", " ", "a", "l", "l", "e", " ", "o", "f", "f", "e", "r", "t",
                    "e", " ", "d", "i", " ">> \o shop_name
            \o <<" ", "p", "r", "o", "p", "r", "i", "o", " ", "q", "u", "i", " ", "v",
                    "i", "c", "i", "n", "o", "!">>
      [] c = supermercato ->
            shop_name
            \o <<" ", EGrave, " ", "q", "u", "i", " ", "v", "i", "c", "i", "n", "o",
                    ",", " ", "p", "e", "r", "f", "e", "t", "t", "o", " ", "p", "e",
                    "r", " ", "f", "a", "r", "e", " ", "l", "a", " ", "s", "p", "e",
                    "s", "a", " ", "v", "e", "l", "o", "c", "e", "m", "e", "n", "t",
                    "e", ".">>
      [] OTHER ->
            <<"S", "e", "i", " ", "v", "i", "c", "i", "n", "o", " ", "a",
                    " ">> \o shop_name \o <<"!", " ", "F", "e", "r", "m", "a", "t",
                    "i", " ", "a", " ", "d", "a", "r", "e", " ", "u", "n", "'", "o",
                    "c", "c", "h", "i", "a", "t", "a", ".">>

\* What the LLM client does with a prompt: it raises, or it answers a text.
LlmContents == {<<"h", "i", " ">>, <<"n", "u", "l", "l">>, <<" ">>}
LlmOutcomes ==
    {[ok |-> FALSE, content |-> <<>>]} \cup {[ok |-> TRUE,
            content |-> c] : c \in LlmContents}

\* MessageGeneratorService._call_llm
call_llm(llm, poi_params) ==
    IF llm.ok THEN Strip(llm.content)
    ELSE get_fallback_message(poi_params.name, poi_params.category)

\* The stand-in MemoryCache cache_utils defines when the cache modules
\* cannot be imported: a dict without expiry.
stub_get(c, key) == [cache |-> c,
        result |-> IF key \in DOMAIN c THEN c[key].value ELSE PyNone]
stub_set(c, key, value) ==
    [cache |-> DictUpdate(c, [k \in {key} |-> [value |-> value, expire_time |-> 0]]),
     result |-> PyBool(TRUE)]

\* cache.get(key) on the active backend: both stores afterwards, and the value.
cache_get(b, c, store, t, key) ==
    CASE b = "memory" -> [store |-> store] @@ mem_get(c, t, key)
      [] b = "stub" -> [store |-> store] @@ stub_get(c, key)
      [] OTHER -> [cache |-> c, store |-> store,
                   result |-> rc_get("connected", server, store, t, key)]

\* cache.set(key, value, ttl) on the active backend.  A command the server
\* does not answer is taken not to reach the keyspace.
cache_set(b, c, store, t, key, value, ttl) ==
    CASE b = "memory" -> [store |-> store] @@ mem_set(c, t, key, value, PyNum(ttl),
            CACHE_TTL)
      [] b = "stub" -> [store |-> store] @@ stub_set(c, key, value)
      [] OTHER -> [cache |-> c]
                  @@ rc_set("connected", server, FALSE, store, t, key, value, PyNum(ttl),
                            CACHE_TTL)

\* Counters that leave a miss out.
CountedHitsOnly(stats, result) ==
    IF IsRaised(result) THEN stats
    ELSE [hits |-> stats.hits + (IF Truthy(result) THEN 1 ELSE 0),
          misses |-> stats.misses,
          total |-> stats.total + 1]

\* cache_stats after a probe that returned result; an exception leaves
\* before the counters are touched.
Counted(stats, result) ==
    IF IsRaised(result) THEN stats
    ELSE [hits |-> stats.hits + (IF Truthy(result) THEN 1 ELSE 0),
          misses |-> stats.misses + (IF Truthy(result) THEN 0 ELSE 1),
          total |-> stats.total + 1]

\* cache_utils.get_cached_message, r what cache.get did.
Probed(r, stats) == [stats |-> Counted(stats, r.result)] @@ r

get_cached_message(b, c, store, stats, t, user_params, poi_params) ==
    IF b = "none" THEN [cache |-> c, store |-> store, stats |-> stats, result |-> PyNone]
    ELSE Probed(cache_get(b, c, store, t, generate_cache_key(user_params, poi_params)),
            stats)

popular_categories == {ristorante, bar, abbigliamento, supermercato}

\* The TTL cache_message hands to cache.set.
AdaptiveTtl(poi_params) ==
    IF Lower(poi_params.category) \in popular_categories THEN CACHE_TTL * 2 ELSE CACHE_TTL

\* cache_message with the cache switched off.
cache_message_off(b, c, store, t, user_params, poi_params, message) ==
    [cache |-> c, store |-> store, result |-> PyBool(FALSE), wrote |-> FALSE, ttl |-> 0]

\* cache_utils.cache_message
cache_message(b, c, store, t, user_params, poi_params, message) ==
    IF b = "none"
    THEN [cache |-> c, store |-> store, result |-> PyBool(FALSE), wrote |-> FALSE,
            ttl |-> 0]
    ELSE [wrote |-> TRUE, ttl |-> AdaptiveTtl(poi_params)]
         @@ cache_set(b, c, store, t, generate_cache_key(user_params, poi_params),
                      PyText(message), AdaptiveTtl(poi_params))

\* generate_message on a hit: the cached value, and no call of the LLM.
Hit(probe) ==
    [message |-> probe.result, cached |-> TRUE, llm |-> "none", wrote |-> FALSE,
            ttl |-> 0]
    @@ probe

\* generate_message on a miss: the LLM is called and its text, or the
\* fallback, goes to cache_message.
Miss(probe, b, t, user_params, poi_params, llm, generated) ==
    [stats |-> probe.stats, message |-> PyText(generated), cached |-> FALSE,
     llm |-> IF llm.ok THEN "ok" ELSE "failed"]
    @@ cache_message(b, probe.cache, probe.store, t, user_params, poi_params, generated)

\* generate_message left by an exception of the cache lookup.
Errored(probe) ==
    [message |-> probe.result, cached |-> FALSE, llm |-> "none", wrote |-> FALSE,
            ttl |-> 0]
    @@ probe

Served(probe, b, t, user_params, poi_params, llm) ==
    IF IsRaised(probe.result) THEN Errored(probe)
    ELSE IF Truthy(probe.result) THEN Hit(probe)
    ELSE Miss(probe, b, t, user_params, poi_params, llm, call_llm(llm, poi_params))

\* MessageGeneratorService.generate_message
generate_message(b, c, store, stats, t, user_params, poi_params, llm) ==
    Served(get_cached_message(b, c, store, stats, t, user_params, poi_params),
           b, t, user_params, poi_params, llm)

\* The requests of the model: two that differ in case, spacing, order of the
\* interests and age within a bucket, one of a category without the bonus,
\* and one that differs from the first in the description only.
GenRequests ==
    {[user |-> User(30, <<"a">>, <<"b", ",", "c">>), poi |-> Poi(<<"x">>, ristorante,
            <<"d">>)],
     [user |-> User(31, <<"A">>, <<"C", ",", " ", "b">>), poi |-> Poi(<<"X">>, <<"R",
             "i", "s", "t", "o", "r", "a", "n", "t", "e">>, <<"e">>)],
     [user |-> User(30, <<"a">>, <<"b", ",", "c">>), poi |-> Poi(<<"x">>, <<"z", "o",
             "o">>, <<"d">>)],
     [user |-> User(30, <<"a">>, <<"b", ",", "c">>), poi |-> Poi(<<"x">>, ristorante,
             <<"e">>)]}

\* Ghosts: the latest write of a fingerprint, and the latest request.
NoRequest == [user |-> User(0, <<>>, <<>>), poi |-> Poi(<<>>, <<>>, <<>>)]
NoWrite ==
    [at |-> 0, ttl |-> 0, category |-> <<>>, message |-> <<>>, llm |-> "none",
     req |-> NoRequest]
NoResponse ==
    [n |-> 0, fp |-> Md5Hex(<<>>), message |-> PyNone, cached |-> FALSE, llm |-> "none",
     at |-> 0, had |-> FALSE, prior |-> NoWrite, status |-> 0, srv |-> "up",
     req |-> NoRequest]

\* GenerateResponse(message=message, cached=is_cached): 200, or the 500 of
\* the handler's except clause when generate_message raised or the message
\* does not validate as a str.  An int or a bool is coerced by pydantic 1
\* and rejected by pydantic 2.
ResponseStatuses(r) ==
    IF IsRaised(r.message) \/ IsRaised(r.result) THEN {500}
    ELSE CASE r.message.t = "str" -> {200}
           [] r.message.t \in {"int", "bool"} -> {200, 500}
           [] OTHER -> {500}

GenQuiet ==
    /\ backend = "none"
    /\ cache_stats = [hits |-> 0, misses |-> 0, total |-> 0]
    /\ written = EmptyDict
    /\ lastResp = NoResponse

\* After import of cache_utils: Redis answered the ping, or it did not and
\* the in-process cache stands in, or CACHE_ENABLED is off.
GenInit ==
    /\ backend \in {"redis", "memory", "none"}
    /\ cache_stats = [hits |-> 0, misses |-> 0, total |-> 0]
    /\ written = EmptyDict
    /\ lastResp = NoResponse

\* The state after a request that generate_message answered with r.
Respond(req, fp, r) ==
    \E status \in ResponseStatuses(r) :
    /\ cache' = r.cache
    /\ rstore' = r.store
    /\ cache_stats' = r.stats
    /\ written' = IF r.wrote /\ r.result = PyBool(TRUE)
                  THEN DictUpdate(written, [k \in {fp} |->
                            [at |-> now, ttl |-> r.ttl, category |-> req.poi.category,
                             message |-> r.message.v, llm |-> r.llm, req |-> req]])
                  ELSE written
    /\ lastResp' = [n |-> lastResp.n + 1, fp |-> fp, message |-> r.message,
                    cached |-> r.cached, llm |-> r.llm, at |-> now,
                    had |-> fp \in DOMAIN written, prior |-> DictGet(written, fp,
                            NoWrite),
                    status |-> status, srv |-> server, req |-> req]

\* POST /generate
generate(req, llm) ==
    /\ lastResp.n < MaxRequests
    /\ Respond(req, generate_cache_key(req.user, req.poi),
               generate_message(backend, cache, rstore, cache_stats, now,
                                req.user, req.poi, llm))
    /\ UNCHANGED <<now, backend>>
    /\ GenOnly

\* The cleanup thread of the in-process cache, when that is the backend.
GenCleanup ==
    /\ backend = "memory"
    /\ MemoryCache_cleanup_expired_keys

GenNext ==
    \/ Tick
    \/ \E req \in GenRequests, llm \in LlmOutcomes : generate(req, llm)
    \/ GenCleanup


(***************************************************************************)
(* Part 5b.  Two /generate requests at once.  One process serves one       *)
(* request at a time, so two requests overlap only in two processes of     *)
(* the service, and they share a cache only when it is the Redis server.   *)
(* A blocking call (cache.get, the LLM client, cache.set) is one step.     *)
(***************************************************************************)

Handlers == {"h1", "h2"}

\* The requests of the model that have the fingerprint of the first.
RaceFingerprint ==
    generate_cache_key(User(30, <<"a">>, <<"b", ",", "c">>), Poi(<<"x">>, ristorante,
            <<"d">>))
RaceRequests ==
    {req \in GenRequests : generate_cache_key(req.user, req.poi) = RaceFingerprint}

\* A process before its request arrives; missed is a ghost: the lookup of
\* the request returned nothing.
Waiting(req) ==
    [pc |-> "idle", req |-> req, missed |-> FALSE, generated |-> <<>>, message |-> PyNone,
     cached |-> FALSE, stats |-> [hits |-> 0, misses |-> 0, total |-> 0]]

RaceQuiet ==
    inflight = [h \in Handlers |-> Waiting(CHOOSE req \in RaceRequests : TRUE)]

RaceInit == inflight \in [Handlers -> {Waiting(req) : req \in RaceRequests}]

\* generate_message up to the return of get_cached_message.
RaceProbe(h) ==
    /\ inflight[h].pc = "idle"
    /\ LET req == inflight[h].req
           probe == get_cached_message(backend, cache, rstore, inflight[h].stats, now,
                                       req.user, req.poi)
       IN /\ inflight' = [inflight EXCEPT ![h] =
                IF Truthy(probe.result)
                THEN [@ EXCEPT !.pc = "done", !.message = probe.result, !.cached = TRUE,
                               !.stats = probe.stats]
                ELSE [@ EXCEPT !.pc = "missed", !.missed = TRUE, !.stats = probe.stats]]
          /\ rstore' = probe.store
          /\ cache' = probe.cache
    /\ UNCHANGED <<now, lastSet, opres>>
    /\ UNCHANGED <<pipeVars, keyVars, genVars, svcVars, rerunVars, viewVars, threadVars>>

\* generated = self._call_llm(user_params, poi_params)
RaceLlm(h, llm) ==
    /\ inflight[h].pc = "missed"
    /\ inflight' = [inflight EXCEPT ![h] =
            [@ EXCEPT !.pc = "called", !.generated = call_llm(llm, inflight[h].req.poi)]]
    /\ UNCHANGED <<pipeVars, keyVars, cacheVars, genVars, svcVars, rerunVars, viewVars,
            threadVars>>

\* cache_utils.cache_message(user_params, poi_params, generated) and the
\* return of (generated, False).
RaceWrite(h) ==
    /\ inflight[h].pc = "called"
    /\ LET req == inflight[h].req
           w == cache_message(backend, cache, rstore, now, req.user, req.poi,
                              inflight[h].generated)
       IN /\ rstore' = w.store
          /\ cache' = w.cache
    /\ inflight' = [inflight EXCEPT ![h] =
            [@ EXCEPT !.pc = "done", !.message = PyText(inflight[h].generated)]]
    /\ UNCHANGED <<now, lastSet, opres>>
    /\ UNCHANGED <<pipeVars, keyVars, genVars, svcVars, rerunVars, viewVars, threadVars>>

RaceNext ==
    \/ Tick
    \/ \E h \in Handlers : RaceProbe(h)
    \/ \E h \in Handlers, llm \in LlmOutcomes : RaceLlm(h, llm)
    \/ \E h \in Handlers : RaceWrite(h)
(***************************************************************************)
(* Part 6.  The two services that hold a cache: what each ends with at     *)
(* start-up, and the /timeseries handler of the query service.  A tick of  *)
(* the clock is half a day.                                                *)
(***************************************************************************)

\* No service is running; the Redis server is up and a RedisCache is
\* connected to it.
NoPing == [gen |-> "unasked", query |-> "unasked"]
NoQueryResponse == [n |-> 0, status |-> 0]
SvcQuiet ==
    /\ server = "up"
    /\ pinged = NoPing
    /\ client = "connected"
    /\ enabled = FALSE
    /\ qbackend = "none"
    /\ qcache = EmptyDict
    /\ qresp = NoQueryResponse

\* cache_utils at import: the backend `cache` ends with.  When the cache
\* modules cannot be imported the stand-in RedisCache has no client.
cache_init(en, imported, ping) ==
    IF ~en THEN "none"
    ELSE IF ~imported THEN "stub"
    ELSE IF RedisCache_init(ping) = "none" THEN "memory"
    ELSE "redis"

\* QueryCacheManager.__init__: the backend self.cache ends with.
QueryCacheManager_init(en, ping) ==
    IF ~en THEN "none"
    ELSE IF RedisCache_init(ping) = "none" THEN "memory"
    ELSE "redis"

\* cache.info() of a backend over the dict c.
cache_info(b, c, t, reply) ==
    CASE b = "memory" ->
            PyDict([status |-> "in-memory",
                    total_keys |-> Cardinality(DOMAIN c),
                    active_keys |-> Cardinality({k \in DOMAIN c : c[k].expire_time > t}),
                    expired_keys |-> Cardinality({k \in DOMAIN c : ~(c[k].expire_time > t)})])
      [] b = "stub" ->
            PyDict([status |-> "fallback-memory", total_keys |-> Cardinality(DOMAIN c)])
      [] OTHER -> rc_info("connected", server, reply)

\* cache_utils.get_cache_stats; hit_rate as numerator and denominator.
get_cache_stats(b, c, stats, t, reply) ==
    IF b = "none" THEN PyDict([enabled |-> FALSE])
    ELSE PyDict([enabled |-> enabled, hits |-> stats.hits, misses |-> stats.misses,
                 total |-> stats.total,
                 hit_rate |-> IF stats.total > 0 THEN <<stats.hits,
                         stats.total>> ELSE <<0, 1>>,
                 cache_info |-> cache_info(b, c, t, reply)])

\* A datetime: a time in ticks, with or without a UTC offset.
TicksPerDay == 2
Naive(at) == [at |-> at, aware |-> FALSE]
Aware(at) == [at |-> at, aware |-> TRUE]

\* a - b: a timedelta in ticks, or the TypeError of subtracting an
\* offset-aware datetime and an offset-naive one.
Minus(a, b) ==
    IF a.aware # b.aware THEN Raised("TypeError") ELSE [t |-> "timedelta",
            v |-> a.at - b.at]

\* timedelta.days: whole days, rounded down.
Days(delta) == delta.v \div TicksPerDay

\* The routing decision from the two differences should_use_stream takes.
Routed(age, range, granularity) ==
    IF IsRaised(age) THEN age
    ELSE IF IsRaised(range) THEN range
    ELSE IF Days(age) <= 7 /\ granularity \in {"minute", "hour"} THEN PyBool(TRUE)
    ELSE IF range.v <= TicksPerDay THEN PyBool(TRUE)
    ELSE PyBool(FALSE)

\* QueryEngine.should_use_stream, datetime.now() being t.
should_use_stream(t, start_time, end_time, granularity) ==
    Routed(Minus(Naive(t), start_time), Minus(end_time, start_time), granularity)

\* The /timeseries queries of the model: start and end times a week or more
\* back, or ahead, with and without an offset.
TimeSeriesQuery(start_time, end_time, granularity) ==
    [start_time |-> start_time, end_time |-> end_time, granularity |-> granularity]
Queries ==
    {TimeSeriesQuery(Naive(-14), Naive(9), "hour"),
     TimeSeriesQuery(Naive(9), Naive(-15), "hour"),
     TimeSeriesQuery(Naive(-16), Naive(-15), "hour"),
     TimeSeriesQuery(Naive(-16), Naive(9), "hour"),
     TimeSeriesQuery(Naive(-14), Naive(9), "day"),
     TimeSeriesQuery(Naive(-16), Naive(9), "minute"),
     TimeSeriesQuery(Naive(-16), Naive(9), "month"),
     TimeSeriesQuery(Naive(-16), Naive(9), "week"),
     TimeSeriesQuery(Naive(-16), Naive(-15), "month"),
     TimeSeriesQuery(Aware(-14), Aware(9), "hour"),
     TimeSeriesQuery(Naive(-14), Aware(9), "hour")}

\* What the source query does: it raises, or returns rows.
SourceOutcomes ==
    {[ok |-> FALSE, rows |-> <<>>], [ok |-> TRUE, rows |-> <<>>],
     [ok |-> TRUE,
      rows |-> <<PyDict([k \in {<<"t", "i", "m", "e", "s", "t", "a", "m",
              "p">>} |-> PyDatetime(0)])>>]}

\* str(datetime), as json.dumps(default=str) writes it into the key.
StampText(d) ==
    (IF d.at < 0 THEN <<"-">> \o Digits(0 - d.at) ELSE Digits(d.at))
    \o (IF d.aware THEN <<"+", "0", "0", ":", "0", "0">> ELSE <<>>)

\* QueryCacheManager.get_cache_key("timeseries", query.dict())
QueryKey(q) ==
    Md5Hex(<<"q", "u", "e", "r", "y", ":", "t", "i", "m", "e", "s", "e", "r", "i", "e",
            "s", ":">> \o <<q.granularity, "/">> \o StampText(q.start_time)
           \o <<"/">> \o StampText(q.end_time))

\* QueryCacheManager.get
QueryCacheManager_get(qb, qc, store, t, key) ==
    IF qb = "none" THEN [cache |-> qc, store |-> store, result |-> PyNone]
    ELSE [result |-> Caught(cache_get(qb, qc, store, t, key).result, PyNone)]
         @@ cache_get(qb, qc, store, t, key)

\* QueryCacheManager.set
QueryCacheManager_set(qb, qc, store, t, key, value, ttl) ==
    IF qb = "none" THEN [cache |-> qc, store |-> store, result |-> PyBool(FALSE)]
    ELSE [result |-> Caught(cache_set(qb, qc, store, t, key, value, ttl).result,
                            PyBool(FALSE))]
         @@ cache_set(qb, qc, store, t, key, value, ttl)

\* The ttl=300 seconds of query_timeseries, in ticks (rounded up).
QUERY_TTL == 1

\* TimeSeriesResponse(data=result, source=..., cached=False).dict()
TimeSeriesResponse(rows, use_stream) ==
    PyDict([k \in {<<"d", "a", "t", "a">>, <<"s", "o", "u", "r", "c", "e">>, <<"c",
            "a", "c", "h", "e", "d">>} |->
        CASE k = <<"d", "a", "t", "a">> -> PyList(rows)
          [] k = <<"s", "o", "u", "r", "c", "e">> -> PyText(IF use_stream THEN <<"s",
                  "t", "r", "e", "a", "m">> ELSE <<"b", "a", "t", "c", "h">>)
          [] k = <<"c", "a", "c", "h", "e", "d">> -> PyBool(FALSE)])

\* Ghost: a request to the query service and what became of it: from says
\* where the answer came from ("source", "cache", "failed" when a source
\* query raised, "none" when the handler raised before any), ran counts
\* the source queries it started, oks tells of each source query the
\* request met whether it returned, table names the table the query of
\* /timeseries was made on.
EndpointResponse(endpoint, q, status, body, from, use, rows, ran) ==
    [n |-> qresp.n + 1, endpoint |-> endpoint, status |-> status, query |-> q,
     body |-> body, from |-> from, use |-> use, rows |-> rows, ran |-> ran,
     oks |-> <<>>, table |-> "", at |-> now, srv |-> server]

\* The response, with the outcomes of the source queries noted.
Given(oks, response) == [response EXCEPT !.oks = oks]

\* The response, with the table the source query read noted.
ReadFrom(table, response) == [response EXCEPT !.table = table]

\* A batch query that reads the hourly projection whatever the granularity.
BatchTableHourly(granularity) == "shop_visits_hourly"

\* query_batch_timeseries: the projection table its query names.
BatchTable(granularity) ==
    CASE granularity = "hour" -> "shop_visits_hourly"
      [] granularity = "day" -> "user_activity_daily"
      [] OTHER -> "monthly_shop_summary"

\* query_stream_timeseries: FROM nearyou.user_events
StreamTable(granularity) == "user_events"

\* The table of the query query_timeseries awaits after routing.
TableOf(use_stream, granularity) ==
    IF use_stream THEN StreamTable(granularity) ELSE BatchTable(granularity)

\* Ghost: a /timeseries request and what became of it.
QueryResponse(q, status, body, from, use, rows) ==
    EndpointResponse("timeseries", q, status, body, from, use, rows,
                     IF from \in {"source", "failed"} THEN 1 ELSE 0)

\* The state query_timeseries leaves.
QueryDone(qc, store, response) ==
    /\ qcache' = qc
    /\ rstore' = store
    /\ qresp' = response

\* query_timeseries past the cache write.
QueryStored(q, src, use, response, put) ==
    QueryDone(put.cache, put.store,
              ReadFrom(TableOf(use.v, q.granularity),
                       Given(<<src.ok>>,
                             QueryResponse(q, 200, response, "source", use, src.rows))))

\* query_timeseries on a miss: the routing decision, the source query, the
\* cache write; an exception of the first two is answered 500.
QueryMissed(q, src, key, qc, use) ==
    IF IsRaised(use) THEN QueryDone(qc, rstore, QueryResponse(q, 500, use, "none", use,
            <<>>))
    ELSE IF ~src.ok
    THEN QueryDone(qc, rstore,
                   ReadFrom(TableOf(use.v, q.granularity),
                            Given(<<src.ok>>, QueryResponse(q, 500, Raised("Exception"),
                                                            "failed", use, <<>>))))
    ELSE QueryStored(q, src, use, TimeSeriesResponse(src.rows, use.v),
                     QueryCacheManager_set(qbackend, qc, rstore, now, key,
                                           TimeSeriesResponse(src.rows, use.v),
                                                   QUERY_TTL))

\* query_timeseries after the cache lookup: TimeSeriesResponse(**cached) of
\* a truthy value.
QueryLooked(q, src, key, got) ==
    IF IsRaised(got.result)
    THEN QueryDone(got.cache, rstore, QueryResponse(q, 500, got.result, "none", PyNone,
            <<>>))
    ELSE IF Truthy(got.result)
    THEN QueryDone(got.cache, rstore,
                   QueryResponse(q, IF got.result.t = "dict" THEN 200 ELSE 500,
                           got.result,
                                 "cache", PyNone, <<>>))
    ELSE QueryMissed(q, src, key, got.cache,
                     should_use_stream(now, q.start_time, q.end_time, q.granularity))

\* Requests the two services serve between them in one run.
MaxServed == 2
Served2 == lastResp.n + qresp.n

\* POST /timeseries
query_timeseries(q, src) ==
    /\ Served2 < MaxServed
    /\ QueryLooked(q, src, QueryKey(q),
                   QueryCacheManager_get(qbackend, qcache, rstore, now, QueryKey(q)))
    /\ UNCHANGED <<now, cache, lastSet, opres>>
    /\ UNCHANGED <<server, pinged, client, enabled, qbackend>>
    /\ SvcOnly

\* The body of a response model with the given fields, all lists left empty.
ResponseBody(fields) == PyDict([k \in fields |-> PyList(<<>>)])

\* An endpoint that keeps the result of its first source query when the
\* second one raises.
TwoQueriesPartial(endpoint, q, first, second, fields) ==
    IF ~first
    THEN EndpointResponse(endpoint, q, 500, Raised("Exception"), "failed", PyNone,
            <<>>, 1)
    ELSE EndpointResponse(endpoint, q, 200, ResponseBody(fields), "source", PyNone,
            <<>>, 2)

\* The try block of query_user_activity and of query_shop_performance: two
\* source queries one after the other, then the response; an exception of
\* either is answered 500.
TwoQueries(endpoint, q, first, second, fields) ==
    IF ~first
    THEN EndpointResponse(endpoint, q, 500, Raised("Exception"), "failed", PyNone,
            <<>>, 1)
    ELSE IF ~second
    THEN EndpointResponse(endpoint, q, 500, Raised("Exception"), "failed", PyNone,
            <<>>, 2)
    ELSE EndpointResponse(endpoint, q, 200, ResponseBody(fields), "source", PyNone,
            <<>>, 2)

\* What the handlers without a cache leave alone.
Uncached ==
    /\ UNCHANGED <<server, pinged, client, enabled, qbackend, qcache>>
    /\ UNCHANGED cacheVars
    /\ SvcOnly

\* The /aggregate queries of the model: a metric served from the batch
\* tables and one served from the stream.
AggregateQueries == {[metric |-> "monthly_summary"], [metric |-> "visits"]}

\* POST /aggregate: one source query, batch or stream by the metric.
query_aggregate(q, ok) ==
    /\ Served2 < MaxServed
    /\ qresp' = Given(<<ok>>,
                      IF ok
                      THEN EndpointResponse("aggregate", q, 200,
                                            ResponseBody({<<"d", "a", "t", "a">>,
                                                    <<"d", "i", "m", "e", "n", "s",
                                                    "i", "o", "n", "s">>}),
                                            "source", PyNone, <<>>, 1)
                      ELSE EndpointResponse("aggregate", q, 500, Raised("Exception"),
                                            "failed", PyNone, <<>>, 1))
    /\ Uncached

\* POST /user/activity
query_user_activity(q, first, second) ==
    /\ Served2 < MaxServed
    /\ qresp' = Given(<<first, second>>,
                      TwoQueries("user_activity", q, first, second,
                                 {<<"u", "s", "e", "r", "_", "i", "d">>, <<"r", "e",
                                         "a", "l", "t", "i", "m", "e", "_", "a", "c",
                                         "t", "i", "v", "i", "t", "y">>,
                                  <<"h", "i", "s", "t", "o", "r", "i", "c", "a", "l",
                                          "_", "s", "u", "m", "m", "a", "r", "y">>}))
    /\ Uncached

\* POST /shop/performance
query_shop_performance(q, first, second) ==
    /\ Served2 < MaxServed
    /\ qresp' = Given(<<first, second>>,
                      TwoQueries("shop_performance", q, first, second,
                                 {<<"s", "h", "o", "p", "s">>, <<"t", "r", "e", "n",
                                         "d", "s">>, <<"p", "e", "r", "i", "o", "d",
                                         "_", "d", "a", "y", "s">>}))
    /\ Uncached

\* The cleanup thread of the query service's in-process cache.
QueryCleanup ==
    /\ qbackend = "memory"
    /\ qcache' = mem_cleanup(qcache, now)
    /\ UNCHANGED <<server, pinged, client, enabled, qbackend, qresp>>
    /\ UNCHANGED cacheVars
    /\ SvcOnly

\* The states the server was in when each service started, and the start.
SvcInit ==
    /\ enabled \in BOOLEAN
    /\ server \in {"up", "down"}
    /\ \E imported \in BOOLEAN, sg \in ServerStates, sq \in ServerStates :
        /\ pinged = [gen |-> IF enabled /\ imported THEN PingOf(sg) ELSE "unasked",
                     query |-> IF enabled THEN PingOf(sq) ELSE "unasked"]
        /\ backend = cache_init(enabled, imported, PingOf(sg))
        /\ qbackend = QueryCacheManager_init(enabled, PingOf(sq))
        /\ client = IF enabled /\ imported THEN RedisCache_init(PingOf(sg)) ELSE "none"
    /\ qcache = EmptyDict
    /\ qresp = NoQueryResponse

\* The requests the generator gets while the query service runs beside it.
SvcRequests == {[user |-> User(30, <<"a">>, <<"b">>), poi |-> Poi(<<"x">>, bar, <<"d">>)]}
SvcLlm == {[ok |-> FALSE, content |-> <<>>], [ok |-> TRUE, content |-> <<"h", "i">>]}

\* Bound: ticks of the clock while the two services run.
SvcMaxTime == 2

SvcNext ==
    \/ (now < SvcMaxTime /\ Tick)
    \/ \E srv \in {"up", "down"} : ServerChange(srv)
    \/ \E req \in SvcRequests, llm \in SvcLlm : Served2 < MaxServed /\ generate(req, llm)
    \/ \E q \in Queries, src \in SourceOutcomes : query_timeseries(q, src)
    \/ \E q \in AggregateQueries, ok \in BOOLEAN : query_aggregate(q, ok)
    \/ \E first \in BOOLEAN, second \in BOOLEAN :
            query_user_activity([user_id |-> 7], first, second)
    \/ \E first \in BOOLEAN, second \in BOOLEAN :
            query_shop_performance([shop_ids |-> <<1>>, period_days |-> 7], first, second)
    \/ GenCleanup
    \/ QueryCleanup
(***************************************************************************)
(* Part 7.  The monthly batch summary (materialized_views.py) and the      *)
(* reads of it by the query service (query_engine.py).                     *)
(***************************************************************************)

\* Bounds: rows of user_events per shop in the month, data parts of the
\* summary table, seconds of the server clock.
MaxVisits == 2
MaxParts == 3
MaxClock == 1

\* The values of poi_name in user_events.
ShopNames == {"Caffe X", "Altro"}

\* datetime.now().replace(day=1, hour=0, ...): every run of one behaviour
\* falls in the same month.
ThisMonth == "month"

\* A row of monthly_shop_summary (unique_visitors and avg_distance are
\* computed and stored the same way as total_visits and are left out).
SummaryRow(shop_id, total_visits, calculated_at) ==
    [month |-> ThisMonth, shop_id |-> shop_id, total_visits |-> total_visits,
     calculated_at |-> calculated_at]

\* SELECT ... FROM user_events WHERE <this month> AND poi_name != ''
\* GROUP BY shop_id: one row for each shop with rows in the month.
RefreshRows(v, at) == {SummaryRow(s, v[s], at) : s \in {s \in ShopNames : v[s] > 0}}

\* ORDER BY (month, shop_id)
SameKey(a, b) == a.month = b.month /\ a.shop_id = b.shop_id

\* The merge of two data parts of a ReplacingMergeTree(calculated_at): of
\* the rows with one sorting key the one with the greatest version stays,
\* the later inserted when the versions are equal.
Replacing(older, newer) ==
    {r \in newer : ~\E o \in older : SameKey(o, r) /\ o.calculated_at > r.calculated_at}
        \cup {o \in older : ~\E r \in newer : SameKey(o,
                r) /\ r.calculated_at >= o.calculated_at}

\* What a SELECT without FINAL scans: every row of every data part.
AllRows(parts) == UNION {{<<i, r>> : r \in parts[i]} : i \in DOMAIN parts}

\* sum(total_visits) over scanned rows
RECURSIVE SumVisits(_)
SumVisits(scanned) ==
    IF scanned = {} THEN 0
    ELSE LET x == CHOOSE x \in scanned : TRUE IN x[2].total_visits + SumVisits(scanned \ {x})

\* ORDER BY total_visits DESC (rows with equal values in part order)
RECURSIVE OrderByVisitsDesc(_)
OrderByVisitsDesc(scanned) ==
    IF scanned = {} THEN <<>>
    ELSE LET x == CHOOSE x \in scanned : \A y \in scanned :
                    \/ x[2].total_visits > y[2].total_visits
                    \/ /\ x[2].total_visits = y[2].total_visits
                       /\ \/ x[1] < y[1]
                          \/ x[1] = y[1] /\ (x[2].shop_id = y[2].shop_id \/ x[2].shop_id = "Altro")
         IN <<x[2]>> \o OrderByVisitsDesc(scanned \ {x})

NoRead == [kind |-> "none", covers |-> FALSE, result |-> <<>>,
        of |-> [s \in ShopNames |-> 0]]

ViewsQuiet ==
    /\ visits = [s \in ShopNames |-> 0]
    /\ clock = 0
    /\ summary = <<>>
    /\ latest = [s \in ShopNames |-> 0]
    /\ mvread = NoRead

ViewsInit == ViewsQuiet

\* write_to_clickhouse: one more row of user_events in the month for a shop.
Visit(s) ==
    /\ visits[s] < MaxVisits
    /\ visits' = [visits EXCEPT ![s] = @ + 1]
    /\ UNCHANGED <<clock, summary, latest, mvread>>
    /\ ViewsOnly

\* A second passes on the server.
ViewsTick ==
    /\ clock < MaxClock
    /\ clock' = clock + 1
    /\ UNCHANGED <<visits, summary, latest, mvread>>
    /\ ViewsOnly

\* refresh_monthly_summary: INSERT INTO monthly_shop_summary SELECT ...;
\* the rows of one INSERT make one new data part.  An exception is caught
\* and logged.
refresh_monthly_summary(ok) ==
    /\ Len(summary) < MaxParts
    /\ IF ok
       THEN /\ summary' = IF RefreshRows(visits, clock) = {} THEN summary
                          ELSE Append(summary, RefreshRows(visits, clock))
            /\ latest' = visits
       ELSE UNCHANGED <<summary, latest>>
    /\ UNCHANGED <<visits, clock, mvread>>
    /\ ViewsOnly

\* The server merges two neighbouring data parts, whenever it chooses to.
BackgroundMerge(i) ==
    /\ i \in 1..(Len(summary) - 1)
    /\ summary' = SubSeq(summary, 1, i - 1) \o <<Replacing(summary[i], summary[i + 1])>>
                    \o SubSeq(summary, i + 2, Len(summary))
    /\ UNCHANGED <<visits, clock, latest, mvread>>
    /\ ViewsOnly

\* query_batch_timeseries with a granularity other than hour and day:
\* SELECT month, sum(total_visits) FROM monthly_shop_summary
\* WHERE month >= start AND month <= end GROUP BY month.
BatchTimeseries(parts, covers) ==
    IF covers /\ AllRows(parts) # {}
    THEN <<[timestamp |-> ThisMonth, value |-> SumVisits(AllRows(parts))]>>
    ELSE <<>>

query_batch_timeseries(covers) ==
    /\ mvread' = [kind |-> "timeseries", covers |-> covers,
                  result |-> BatchTimeseries(summary, covers), of |-> latest]
    /\ UNCHANGED <<visits, clock, summary, latest>>
    /\ ViewsOnly

\* query_batch_aggregate("monthly_summary"): SELECT shop_id, month,
\* total_visits FROM monthly_shop_summary WHERE month >= now() - 3 months
\* ORDER BY total_visits DESC LIMIT 50.
BatchAggregate(parts) ==
    LET rows == OrderByVisitsDesc(AllRows(parts)) IN
    [i \in DOMAIN rows |->
        [dimensions |-> [shop_id |-> rows[i].shop_id, period |-> rows[i].month],
         value |-> rows[i].total_visits]]

query_batch_aggregate ==
    /\ mvread' = [kind |-> "aggregate", covers |-> TRUE,
                  result |-> BatchAggregate(summary), of |-> latest]
    /\ UNCHANGED <<visits, clock, summary, latest>>
    /\ ViewsOnly

ViewsNext ==
    \/ \E s \in ShopNames : Visit(s)
    \/ ViewsTick
    \/ \E ok \in BOOLEAN : refresh_monthly_summary(ok)
    \/ \E i \in 1..MaxParts : BackgroundMerge(i)
    \/ \E covers \in BOOLEAN : query_batch_timeseries(covers)
    \/ query_batch_aggregate
(***************************************************************************)
(* Specifications.                                                         *)
(***************************************************************************)

PipeQuiet ==
    /\ log = [p \in Partitions |-> <<>>]
    /\ produced = 0
    /\ owner = [p \in Partitions |-> Replayer]
    /\ user_filter = None
    /\ readSeq = 0
    /\ wk = [w \in Procs |-> Idle]
    /\ memo = [w \in Procs |-> EmptyDict]
    /\ sink = <<>>
    /\ gen200 = {}
    /\ events_processed = 0
    /\ lost = {}
    /\ consumer = NewConsumer

RerunQuiet ==
    /\ retained = [p \in Partitions |-> <<>>]
    /\ run = 1
    /\ firstRows = 0

\* A replay run whose loop and callback go on whenever they can; nothing
\* obliges the producer to send.
InitReplay ==
    /\ PipeInit /\ owner[0] = Replayer
    /\ KeyQuiet /\ CacheQuiet /\ GenQuiet /\ SvcQuiet
    /\ RerunQuiet /\ ViewsQuiet /\ RaceQuiet /\ ThreadsQuiet
SpecReplay ==
    /\ InitReplay /\ [][ReplayNext]_vars
    /\ WF_vars(ReplayStart)
    /\ WF_vars(ReplayIngest)
    /\ WF_vars(Enrich(Replayer))
    /\ WF_vars(Proximity(Replayer))
    /\ WF_vars(Sink(Replayer))

\* The replay of one range, run twice over the same records.
InitRerun ==
    /\ RerunInit
    /\ KeyQuiet /\ CacheQuiet /\ GenQuiet /\ SvcQuiet /\ ViewsQuiet /\ RaceQuiet /\ ThreadsQuiet
SpecRerun == InitRerun /\ [][RerunNext]_vars

\* The enrichment dataflow: live workers, or a replay run.
Init == PipeInit /\ KeyQuiet /\ CacheQuiet /\ GenQuiet /\ SvcQuiet
    /\ RerunQuiet /\ ViewsQuiet /\ RaceQuiet /\ ThreadsQuiet
Next == PipeNext
Spec == Init /\ [][Next]_vars

\* generate_cache_key applied to two requests.
InitKey == PipeQuiet /\ KeyInit /\ CacheQuiet /\ GenQuiet /\ SvcQuiet
    /\ RerunQuiet /\ ViewsQuiet /\ RaceQuiet /\ ThreadsQuiet
SpecKey == InitKey /\ [][KeyNext]_vars

\* The in-process cache on its own.
InitMem == PipeQuiet /\ KeyQuiet /\ CacheQuiet /\ GenQuiet /\ SvcQuiet
    /\ RerunQuiet /\ ViewsQuiet /\ RaceQuiet /\ ThreadsQuiet
SpecMem == InitMem /\ [][MemNext]_vars

\* The in-process cache with its statistics read at any time.
MemInfoNext == MemNext \/ MemoryCache_info
SpecMemInfo == InitMem /\ [][MemInfoNext]_vars

\* The in-process cache with its reaper thread: a daemon thread that loops
\* on sleep(60) and one pass, so a pass that has work to do is not put off
\* for ever.
SpecMemLive ==
    /\ InitMem /\ [][MemNext]_vars
    /\ WF_vars(MemoryCache_cleanup_expired_keys)

\* The remote cache on its own, the server reachable.
InitRedis == PipeQuiet /\ KeyQuiet /\ CacheQuiet /\ GenQuiet /\ SvcQuiet
    /\ RerunQuiet /\ ViewsQuiet /\ RaceQuiet /\ ThreadsQuiet
SpecRedis == InitRedis /\ [][RedisNext]_vars

\* The message generator over the backend chosen at import.
InitGen ==
    /\ PipeQuiet /\ KeyQuiet
    /\ now = 0 /\ cache = EmptyDict /\ rstore = EmptyDict
    /\ lastSet = EmptyDict /\ opres = NoCall
    /\ GenInit
    /\ SvcQuiet
    /\ RerunQuiet /\ ViewsQuiet /\ RaceQuiet /\ ThreadsQuiet
SpecGen == InitGen /\ [][GenNext]_vars

\* A RedisCache constructed while the server was in some state, and the
\* server changing state under it.
InitFault ==
    /\ PipeQuiet /\ KeyQuiet /\ CacheQuiet /\ GenQuiet
    /\ server \in ServerStates
    /\ pinged = [gen |-> PingOf(server), query |-> "unasked"]
    /\ client = RedisCache_init(PingOf(server))
    /\ enabled = FALSE
    /\ qbackend = "none"
    /\ qcache = EmptyDict
    /\ qresp = NoQueryResponse
    /\ RerunQuiet /\ ViewsQuiet /\ RaceQuiet /\ ThreadsQuiet
SpecFault == InitFault /\ [][FaultNext]_vars


\* The message generator and the query service, each started while the
\* Redis server was in some state, and the server going down and coming
\* back under them.
InitSvc ==
    /\ PipeQuiet /\ KeyQuiet /\ CacheQuiet
    /\ cache_stats = [hits |-> 0, misses |-> 0, total |-> 0]
    /\ written = EmptyDict
    /\ lastResp = NoResponse
    /\ SvcInit
    /\ RerunQuiet /\ ViewsQuiet /\ RaceQuiet /\ ThreadsQuiet
SpecSvc == InitSvc /\ [][SvcNext]_vars

\* The monthly batch summary, its refresh job, the merges of the server and
\* the reads of the query service.
InitViews ==
    /\ PipeQuiet /\ KeyQuiet /\ CacheQuiet /\ GenQuiet /\ SvcQuiet /\ RerunQuiet
    /\ RaceQuiet /\ ThreadsQuiet /\ ViewsInit
SpecViews == InitViews /\ [][ViewsNext]_vars

\* Two processes of the message generator (replicas, or workers of one
\* server) over the same Redis server, each serving one request.
InitRace ==
    /\ PipeQuiet /\ KeyQuiet /\ CacheQuiet /\ SvcQuiet /\ RerunQuiet /\ ViewsQuiet
    /\ backend = "redis"
    /\ cache_stats = [hits |-> 0, misses |-> 0, total |-> 0]
    /\ written = EmptyDict
    /\ lastResp = NoResponse
    /\ RaceInit /\ ThreadsQuiet
SpecRace == InitRace /\ [][RaceNext]_vars

\* The request threads and the reaper thread of one in-process cache.
InitThreads == InitMem
SpecThreads == InitThreads /\ [][ThreadsNext]_vars
(***************************************************************************)
(* Claims about the enrichment dataflow.                                   *)
(***************************************************************************)

Rows == {sink[i] : i \in 1..Len(sink)}

\* C1: every row written to the sink with a non-empty poi_info has
\* poi_range <= 200, comes from an event whose profile lookup returned a
\* profile, and carries a message the generator answered with HTTP 200 for
\* that (user, shop) pair, directly or through the local memo.
C1_MessageImpliesRangeProfileAnd200 ==
    \A row \in Rows :
        row.poi_info # "" =>
            /\ row.poi_range <= MAX_POI_DISTANCE
            /\ row.profile
            /\ \E w \in Procs :
                <<get_cache_key(row.user_id, row.shop_id), row.poi_info, w>> \in gen200

\* C1 witness: a row with a message was written for an event at exactly 200 m.
C1_Witness ==
    \E row \in Rows : row.poi_info # "" /\ row.poi_range = MAX_POI_DISTANCE

\* C3: for two rows of the same user_id, the sink write of the event read
\* first from the ingress log comes first.
C3_PerUserFifo ==
    \A i, j \in 1..Len(sink) :
        (i < j /\ sink[i].user_id = sink[j].user_id) => sink[i].seq < sink[j].seq

\* C4: no stage of the live dataflow lets an exception escape, whatever the
\* input record is.
C4_NoStageRaises == \A w \in Workers : wk[w].pc # "crashed"

\* The profile lookup of the event was made and gave nothing.
ProfileMissing(x) == x.looked \in {"norow", "error"}

\* C14: an event within range whose profile lookup returns no row or fails
\* leaves the stage with poi_info = "" and without a call of the generator
\* (no answer recorded, the memo untouched), and the row written for it
\* has poi_info = "".
C14_NoProfileNoMessage ==
    /\ [](\A row \in Rows : ProfileMissing(row) => (row.poi_info = "" /\ row.called = "no"))
    /\ [][\A w \in Procs :
            (wk[w].pc = "enriched" /\ ProfileMissing(wk'[w])) =>
                /\ wk'[w].pc = "messaged"
                /\ wk'[w].event = [k \in DOMAIN wk[w].event \cup {"poi_info"} |->
                                      IF k = "poi_info" THEN "" ELSE wk[w].event[k]]
                /\ wk'[w].called = "no"
                /\ memo' = memo /\ gen200' = gen200]_vars

\* A row of user 8, who has no profile, and a row of user 7 whose profile
\* query raised, both without a message.
C14_Witness ==
    \E r1, r2 \in Rows :
        /\ r1.looked = "norow" /\ r1.user_id = 8 /\ r1.poi_info = ""
        /\ r2.looked = "error" /\ r2.user_id = 7 /\ r2.poi_info = ""

\* C15: an event whose nearest shop is more than 200 m away leaves the
\* stage with the shop's name and distance and poi_info = "", without a
\* profile lookup or a generator call, and its row says so; an event at
\* exactly 200 m gets the profile lookup.
C15_OutOfRangePassesUnasked ==
    /\ [](\A row \in Rows :
            /\ row.poi_range > MAX_POI_DISTANCE =>
                    /\ row.poi_info = "" /\ row.looked = "no" /\ row.called = "no"
                    /\ row.poi_name = row.found.shop_name
                    /\ row.poi_range = row.found.distance
            /\ row.poi_range = MAX_POI_DISTANCE => row.looked # "no")
    /\ [][\A w \in Procs :
            (/\ wk[w].pc = "enriched" /\ wk'[w] # wk[w]
             /\ wk[w].event["distance"] > MAX_POI_DISTANCE) =>
                /\ wk'[w] = [wk[w] EXCEPT !.pc = "messaged",
                               !.event = [k \in DOMAIN wk[w].event \cup {"poi_info"} |->
                                            IF k = "poi_info" THEN "" ELSE wk[w].event[k]]]
                /\ memo' = memo /\ gen200' = gen200]_vars

\* A row at 201 m without a message and a row at exactly 200 m whose
\* profile was looked up and found.
C15_Witness ==
    \E r1, r2 \in Rows :
        /\ r1.poi_range = 201 /\ r1.poi_name = "Caffe X" /\ r1.poi_info = ""
        /\ r2.poi_range = MAX_POI_DISTANCE /\ r2.looked = "row"

\* C16: an item past the spatial lookup, and every row, comes from an event
\* whose lookup returned a shop, and poi_name and poi_range of a row are the
\* shop_name and distance that lookup returned, whatever the record held.
C16_RowCarriesTheLookup ==
    /\ \A w \in Procs : wk[w].pc \in {"enriched", "messaged"} => wk[w].found # None
    /\ \A row \in Rows :
            /\ row.found # None
            /\ row.poi_name = row.found.shop_name
            /\ row.poi_range = row.found.distance

\* The record that came with shop_name "Altro" and distance 5 (the one
\* at longitude 8) was written with the shop and the distance looked up.
C16_Witness ==
    \E row \in Rows : row.longitude = 8 /\ row.poi_name = "Caffe X" /\ row.poi_range = 201

\* C17: an item at or past the spatial lookup, and every row, comes from a
\* record that is a JSON object with a user_id; and every such record
\* passes validate_message.
C17_ValidationByShape ==
    /\ \A w \in Procs : wk[w].pc \in {"valid", "enriched", "messaged"} => wk[w].hasuid
    /\ \A row \in Rows : row.hasuid
    /\ \A w \in Workers :
            (wk[w].pc = "parsed" /\ wk[w].hasuid) => validate_message(wk[w].key,
                    wk[w].event)

\* The memo key of the item a process holds.
CacheKeyOf(x) == get_cache_key(PyInt(x.key).n, x.event["shop_id"])

\* C18: a generator call that fails leaves the event with poi_info = ""
\* and the memo without its key (a memo entry is always a message answered
\* with 200), and an in-range event with a profile whose key is not in the
\* memo calls the generator.
C18_GeneratorFailureNotMemoised ==
    /\ [](/\ \A row \in Rows : row.called = "failed" => row.poi_info = ""
          /\ \A w \in Procs :
                (wk[w].pc = "messaged" /\ wk[w].called = "failed") =>
                    /\ wk[w].event["poi_info"] = ""
                    /\ CacheKeyOf(wk[w]) \notin DOMAIN memo[w]
          /\ \A w \in Procs : \A k \in DOMAIN memo[w] : <<k, memo[w][k], w>> \in gen200)
    /\ [][\A w \in Procs :
            (/\ wk[w].pc = "enriched" /\ wk'[w].pc = "messaged" /\ wk'[w].looked = "row"
             /\ CacheKeyOf(wk[w]) \notin DOMAIN memo[w]) =>
                wk'[w].called \in {"200", "failed"}]_vars

\* One worker reads both partitions; its call for an event failed, the row
\* went out without a message, and for the next event of the same user and
\* shop it called the generator again and got an answer.
C18_Witness ==
    \E w \in Workers, row \in Rows :
        /\ \A p \in Partitions : owner[p] = w
        /\ row.called = "failed" /\ row.poi_info = ""
        /\ wk[w].pc = "messaged" /\ wk[w].called = "200" /\ wk[w].seq > row.seq
        /\ CacheKeyOf(wk[w]) = get_cache_key(row.user_id, row.shop_id)

\* The timestamp of the item is missing or is not an ISO timestamp.
TimestampBad(item) ==
    \/ "timestamp" \notin DOMAIN item.event
    \/ item.event["timestamp"].kind # "aware"

\* C19: write_to_clickhouse always returns and leaves the process free for
\* the next record; it writes at most the one row, none when the timestamp
\* is missing or unparseable, and an event whose write failed has no row.
C19_SinkFailureLosesOnlyThatEvent ==
    /\ [](\A row \in Rows : row.seq \notin lost)
    /\ [][\A w \in Procs :
            (wk[w].pc = "messaged" /\ wk'[w] # wk[w]) =>
                /\ wk'[w] = Idle
                /\ Len(sink') <= Len(sink) + 1
                /\ TimestampBad(wk[w]) => (sink' = sink /\ wk[w].seq \in lost')
                /\ sink' = sink <=> wk[w].seq \in lost']_vars

\* The write of an event with an unparseable timestamp failed and the event
\* read after it was written.
C19_Witness ==
    \E s \in lost, row \in Rows : row.seq = s + 1 /\ produced = 2

\* The record has a timestamp the replay loop can read, not after the end
\* of the range.
InRange(raw) ==
    /\ raw.kind = "json" /\ raw.isdict
    /\ "timestamp" \in DOMAIN raw.obj
    /\ ToUtcNaive(raw.obj["timestamp"]).ok
    /\ ToUtcNaive(raw.obj["timestamp"]).t <= ReplayEnd

\* The user_id of the record is a member of the allowlist, if one was given.
Allowed(event) ==
    user_filter # None =>
        /\ "user_id" \in DOMAIN event
        /\ event["user_id"].t = "int"
        /\ event["user_id"].n \in user_filter.ids

\* The replay callback is running on a record.
InCallback == wk[Replayer].pc \in {"valid", "enriched", "messaged"}

\* replay_time_range has returned its count.
Returned == wk[Replayer].pc = "stopped" /\ wk[Replayer].raised = ""

\* C25: the replay callback never runs on a record whose timestamp is after
\* the end of the range, and when replay_time_range has returned, no record
\* of any partition that lies in the range and passes the allowlist is left
\* unread.
C25_ReplayCoversTheRange ==
    /\ InCallback => ToUtcNaive(wk[Replayer].event["timestamp"]).t <= ReplayEnd
    /\ Returned =>
        \A p \in Partitions : \A i \in 1..Len(log[p]) :
            ~(InRange(log[p][i]) /\ Allowed(log[p][i].obj))

\* C26: every replay run eventually returns its count.
C26_ReplayReturns == <>Returned

\* C28: with an allowlist the callback runs only on records whose user_id
\* is in it, whatever the list, and only rows of such users are written;
\* the count grows by one, and only while the callback is running on a
\* record.
C28_AllowlistIsApplied ==
    /\ [](/\ InCallback => Allowed(wk[Replayer].event)
          /\ user_filter # None => \A row \in Rows : row.user_id \in user_filter.ids)
    /\ [][events_processed' # events_processed =>
            (InCallback /\ events_processed' = events_processed + 1)]_vars

\* The rows the first run and the second run of a replay wrote.
FirstRunRows == {sink[i] : i \in 1..firstRows}
SecondRunRows == {sink[i] : i \in (firstRows + 1)..Len(sink)}

SameEvent(a, b) == a.user_id = b.user_id /\ a.event_time = b.event_time
Triple(row) == <<row.poi_name, row.poi_range, row.poi_info>>

\* The generator cache kept its entries: no pair of user and shop was
\* answered with two different messages.
StableGenerator == \A a, b \in gen200 : a[1] = b[1] => a[2] = b[2]

\* The second run has ended.
SecondRunOver == run = 2 /\ wk[Replayer].pc = "stopped"

AnsweredBefore(w) ==
    /\ wk[w].pc = "enriched"
    /\ ~TooFar(wk[w].event["distance"])
    /\ PyInt(wk[w].key).ok
    /\ \E a \in gen200 : a[1] = CacheKeyOf(wk[w]) /\ a[3] = w

CallbackEnds == InCallback /\ wk'[Replayer].pc = "idle"
LoopDrops == wk[Replayer].pc = "idle" /\ wk'[Replayer].pc = "idle" /\ readSeq' = readSeq + 1

\* C35: the value replay_time_range returns is the number of records whose
\* callback was invoked and returned without raising: the count goes up by
\* one when a callback returns, and stays when the allowlist skips a record,
\* when its timestamp is missing or cannot be parsed, or when its callback
\* raises; none of these three stops the replay.
C35_CountIsCallbacksReturned ==
    [][/\ (CallbackEnds /\ wk'[Replayer].raised = "") =>
                events_processed' = events_processed + 1
       /\ (CallbackEnds /\ wk'[Replayer].raised # "") =>
                events_processed' = events_processed
       /\ LoopDrops => events_processed' = events_processed
       /\ ~CallbackEnds => events_processed' = events_processed
       /\ InCallback => wk'[Replayer].pc # "stopped"
       /\ (consumer.state = "started" /\ wk'[Replayer].pc = "stopped") =>
                wk'[Replayer].raised \in {"", "Deserialize"}]_vars

\* C35 witness: one record has been counted and the callback of the next
\* one raised; the loop is ready for a further record.
C35_Witness ==
    /\ owner[0] = Replayer
    /\ events_processed = 1 /\ readSeq = 2
    /\ wk[Replayer].pc = "idle" /\ wk[Replayer].raised \in {"KeyError", "ValueError"}

\* The fields of an event the stages after the parse only read.
CarriedFields == {"user_id", "latitude", "longitude", "timestamp"}

\* The event e2 has the field f exactly as the event e1 has it.
SameField(e1, e2, f) ==
    /\ f \in DOMAIN e1 <=> f \in DOMAIN e2
    /\ f \in DOMAIN e1 => e1[f] = e2[f]

\* The process w hands its event from one stage to the next.
StagePassed(w) ==
    \/ wk[w].pc = "valid" /\ wk'[w].pc = "enriched"
    \/ wk[w].pc = "enriched" /\ wk'[w].pc = "messaged"

\* The integer n is the user_id uid of a record: the number itself, or the
\* number a string user_id spells.
IsUser(uid, n) == IF uid.t = "int" THEN uid.n = n ELSE uid.s = ToString(n)

\* C39: the nearest-POI stage and the proximity/generate stage leave
\* user_id, latitude, longitude and timestamp of the event unchanged, and
\* every row written to the sink carries the user_id, latitude and longitude
\* of the ingress record it was produced from.
C39_CarriedFieldsUnchanged ==
    [][/\ \A w \in Procs : StagePassed(w) =>
                \A f \in CarriedFields : SameField(wk[w].event, wk'[w].event, f)
       /\ \A i \in 1..Len(sink') :
                /\ {"user_id", "latitude", "longitude"} \subseteq DOMAIN sink'[i].origin
                /\ IsUser(sink'[i].origin["user_id"], sink'[i].user_id)
                /\ sink'[i].latitude = sink'[i].origin["latitude"]
                /\ sink'[i].longitude = sink'[i].origin["longitude"]]_vars

\* Rows are in the sink for a record whose user_id is a number, for one whose
\* user_id is a string and for one that came with shop fields of its own.
C39_Witness ==
    /\ \E i \in 1..Len(sink) : sink[i].origin["user_id"].t = "int" /\ sink[i].poi_info # ""
    /\ \E i \in 1..Len(sink) : sink[i].origin["user_id"].t = "str"

\* The call of replay_time_range is over: it returned or an exception left it.
CallOver == wk[Replayer].pc = "stopped"

\* C40: on every exit path of replay_time_range that follows a successful
\* consumer start (no partitions found, end of range reached, an exception
\* raised while seeking or iterating), the consumer is stopped exactly once
\* before the call returns or propagates; it is not stopped while the call
\* goes on.
C40_ConsumerStoppedOnce ==
    /\ consumer.stops <= 1
    /\ (CallOver /\ consumer.started) => consumer.stops = 1
    /\ ~CallOver => consumer.stops = 0

\* The loop ended with an exception of the iteration after a record had
\* been processed, and the consumer has been stopped.
C40_Witness ==
    /\ CallOver /\ wk[Replayer].raised = "Deserialize"
    /\ events_processed > 0
    /\ consumer.stops = 1
(***************************************************************************)
(* Claims about the cache fingerprint.                                     *)
(***************************************************************************)

\* The 5-year range an age falls in, by its lower end.
AgeBucket(age) == CHOOSE b \in {5 * k : k \in 0..age} : b <= age /\ age <= b + 4

\* A text without the blanks at its two ends.
Trimmed(text) ==
    LET inked == {i \in 1..Len(text) : text[i] # " "} IN
    IF inked = {} THEN <<>>
    ELSE SubSeq(text, CHOOSE i \in inked : \A j \in inked : i <= j,
                      CHOOSE i \in inked : \A j \in inked : i >= j)

\* The interests of a request as the claim reads them: the comma-separated
\* items, trimmed and lowercased, without the empty ones, as a bag.
InterestItems(text) ==
    LET commas == {i \in 1..Len(text) : text[i] = ","}
        stops == commas \cup {0, Len(text) + 1}
        piece(a) == LET b == CHOOSE c \in stops : c > a /\ \A d \in stops : d > a => c <= d
                    IN Lower(Trimmed(SubSeq(text, a + 1, b - 1)))
        starts == {a \in stops : a <= Len(text) /\ piece(a) # <<>>}
    IN [item \in {piece(a) : a \in starts} |->
            Cardinality({a \in starts : piece(a) = item})]

\* The normalised logical inputs of a request.
NormalTuple(req) ==
    <<AgeBucket(req.user.age), Lower(req.user.profession),
            InterestItems(req.user.interests),
      Lower(req.poi.name), Lower(req.poi.category)>>

KeysComputed == keyA # None /\ keyB # None

\* C6: two requests that differ only by the order of the interests, blanks
\* around them, empty items, letter case of profession, interests, poi name
\* or poi category, or an age change inside one 5-year bucket get the same
\* fingerprint.
C6_EquivalentRequestsShareKey ==
    (KeysComputed /\ NormalTuple(reqA) = NormalTuple(reqB)) => keyA = keyB

\* C6 witness: both keys are computed for two requests that differ in age
\* (30 and 34), in the case of the profession, the name and the category, and
\* in the order, case and spacing of the interests.
C6_Witness ==
    /\ KeysComputed
    /\ reqA.user = User(30, <<"a">>, <<"b", ",", "c">>)
    /\ reqB.user = User(34, <<"A">>, <<"c", ",", " ", "B", " ">>)
    /\ reqA.poi.name # reqB.poi.name
    /\ reqA.poi.category # reqB.poi.category
    /\ keyA = keyB

\* C7: two requests get the same key text only if their normalised logical
\* inputs are equal as a 5-tuple, for all field values.
C7_EqualKeyTextImpliesEqualInputs ==
    (KeysComputed /\ keyA.md5 = keyB.md5) => NormalTuple(reqA) = NormalTuple(reqB)

(***************************************************************************)
(* Claims about the cache backends and the message generator.              *)
(***************************************************************************)

\* Ticks between the latest call and the set its key was last given.
Elapsed == opres.at - opres.last.at

\* C9: in the in-process cache, get(k) returns the value of the latest
\* set(k, v, ttl) when no delete(k) followed it and less than ttl has elapsed,
\* returns none once more than ttl has elapsed, and never returns anything
\* else: no value of an earlier set, no value of a deleted key, no value past
\* its expiry.
C9_GetReturnsLatestLiveSet ==
    opres.op = "get" =>
        /\ (opres.had /\ Elapsed < opres.last.ttl) => opres.result = opres.last.value
        /\ (opres.had /\ Elapsed > opres.last.ttl) => opres.result = PyNone
        /\ ~opres.had => opres.result = PyNone
        /\ opres.result # PyNone =>
                opres.had /\ opres.result = opres.last.value /\ Elapsed <= opres.last.ttl

\* A get, with another key in the cache, that found nothing because the ttl of
\* the latest set of its key had run out.
C9_Witness ==
    /\ opres.op = "get"
    /\ opres.had
    /\ Elapsed > opres.last.ttl
    /\ opres.result = PyNone
    /\ opres.key \in DOMAIN lastSet
    /\ \E other \in DOMAIN cache : other # opres.key

\* C10: in the remote cache with the server reachable, get(k) within ttl of
\* set(k, v, ttl) returns a value equal to v and of the type of v, whether v is
\* a string (the empty one and "123", "true", "null" included) or a record.
C10_RedisRoundTrip ==
    (opres.op = "get" /\ opres.had /\ Elapsed < opres.last.ttl)
        => opres.result = opres.last.value

\* The active backend holds a live entry for fingerprint fp.
CacheHolds(fp) ==
    \/ backend = "memory" /\ fp \in DOMAIN cache /\ ~(now > cache[fp].expire_time)
    \/ backend = "redis" /\ RedisLive(rstore, now, fp)

\* C2: a /generate request for a fingerprint the cache has never held, whose
\* LLM call fails, leaves the cache without an entry for the fingerprint, and
\* a request that follows a fallback is a miss.
C2_FallbackNotCached ==
    /\ (lastResp.llm = "failed" /\ ~lastResp.had /\ lastResp.at = now)
            => ~CacheHolds(lastResp.fp)
    /\ (lastResp.had /\ lastResp.prior.llm = "failed") => ~lastResp.cached

\* Ticks between the latest request and the latest write of its fingerprint.
SinceWrite == lastResp.at - lastResp.prior.at

\* C5: a /generate request that arrives after the LLM produced the non-empty
\* message m for its fingerprint and was cached, before the TTL of that entry
\* has elapsed, is answered (m, cached = true) without a call of the LLM; the
\* request whose LLM call produced m is answered cached = false.
C5_LaterRequestsServedFromCache ==
    /\ (lastResp.had /\ lastResp.prior.llm = "ok" /\ lastResp.prior.message # <<>>
            /\ SinceWrite < lastResp.prior.ttl)
            => /\ lastResp.message = PyText(lastResp.prior.message)
               /\ lastResp.cached
               /\ lastResp.llm = "none"
    /\ lastResp.llm = "ok" => ~lastResp.cached

\* lowercase(category) is one of the four categories with the bonus.
Popular(category) ==
    Lower(category) \in {<<"r", "i", "s", "t", "o", "r", "a", "n", "t", "e">>, <<"b",
            "a", "r">>, <<"a", "b", "b", "i", "g", "l", "i", "a", "m", "e", "n", "t",
            "o">>, <<"s", "u", "p", "e", "r", "m", "e", "r", "c", "a", "t", "o">>}

\* C8: cache_message writes with TTL 2 x CACHE_TTL for the four popular
\* categories and CACHE_TTL for any other; a request that arrives more than
\* CACHE_TTL and less than 2 x CACHE_TTL after a non-empty message was written
\* for its fingerprint is a hit exactly when the category is popular.
C8_AdaptiveTtl ==
    /\ \A fp \in DOMAIN written :
            written[fp].ttl = (IF Popular(written[fp].category) THEN 2 * CACHE_TTL
                               ELSE CACHE_TTL)
    /\ (lastResp.had /\ lastResp.prior.message # <<>>
            /\ CACHE_TTL < SinceWrite /\ SinceWrite < 2 * CACHE_TTL)
            => (lastResp.cached <=> Popular(lastResp.prior.category))


\* The keys stored with an expiry time that has passed.
ExpiredKeys == {k \in DOMAIN cache : now > cache[k].expire_time}

\* C32: in the in-process cache every entry whose expiry time has passed is
\* eventually removed from the map by the reaper, whether or not its key is
\* read, tested or deleted again: the set of stored expired entries becomes
\* empty again.
C32_ReaperRemovesExpired == (ExpiredKeys # {}) ~> (ExpiredKeys = {})

\* C32 witness: both keys were set in one tick, the latest of all calls, and
\* after their expiry the map is empty: no get, exists or delete touched
\* them, the reaper removed them.
C32_Witness ==
    /\ opres.op = "set" /\ opres.key = "k2"
    /\ DOMAIN lastSet = {"k1", "k2"}
    /\ lastSet["k1"].at = opres.at /\ lastSet["k2"].at = opres.at
    /\ now > opres.at + CACHE_TTL
    /\ cache = EmptyDict

\* Two requests that differ in poi.description and in nothing else.
OnlyDescriptionDiffers(a, b) ==
    /\ a.user = b.user
    /\ a.poi.name = b.poi.name /\ a.poi.category = b.poi.category
    /\ a.poi.description # b.poi.description

\* C36: two /generate requests that differ only in poi.description have the
\* same fingerprint, and the second one, arriving within the TTL of the
\* entry written for the first, is answered with the message generated for
\* the first description and cached = true.
C36_DescriptionIsNotInTheKey ==
    /\ lastResp.n > 0 =>
            \A a \in GenRequests :
                OnlyDescriptionDiffers(a, lastResp.req) =>
                    generate_cache_key(a.user, a.poi) = lastResp.fp
    /\ (lastResp.had /\ OnlyDescriptionDiffers(lastResp.prior.req, lastResp.req)
            /\ SinceWrite < lastResp.prior.ttl)
            => /\ lastResp.message = PyText(lastResp.prior.message)
               /\ lastResp.cached

\* The keys for which get, called now, would return a value.
Gettable == {k \in DOMAIN cache : mem_get(cache, now, k).result.t # "none"}

\* C37: info() of the in-process cache reports total_keys = active_keys +
\* expired_keys, and active_keys is the number of keys for which get(k)
\* called at the same instant would return a value, also at the instant at
\* which the clock equals the expiry time of an entry.
C37_InfoAgreesWithGet ==
    [][(opres'.op = "info" /\ now' = now /\ cache' = cache) =>
            /\ opres'.result.v.total_keys.v =
                    opres'.result.v.active_keys.v + opres'.result.v.expired_keys.v
            /\ opres'.result.v.active_keys.v = Cardinality(Gettable)]_vars

(***************************************************************************)
(* Claims about the caches when the Redis server fails, and about the     *)
(* services over them.                                                     *)
(***************************************************************************)

\* C11: whatever the server does, a RedisCache call returns: get gives
\* None, set, delete and exists give False and info gives a record with a
\* status whenever the client is absent or the server refuses or stalls,
\* and get gives None for bytes that are not UTF-8.
C11_RemoteCacheNeverRaises ==
    /\ ~IsRaised(opres.result)
    /\ (opres.op = "get" /\ (client = "none" \/ opres.srv # "up"))
            => opres.result = PyNone
    /\ (opres.op = "get" /\ ~Utf8Valid(opres.raw)) => opres.result = PyNone
    /\ (opres.op \in {"set", "delete", "exists"} /\ (client = "none" \/ opres.srv # "up"))
            => opres.result = PyBool(FALSE)
    /\ opres.op = "info"
            => /\ opres.result.t = "dict"
               /\ "status" \in DOMAIN opres.result.v
               /\ (client = "none" => opres.result.v.status = "disconnected")
               /\ ((client # "none" /\ opres.srv # "up") => opres.result.v.status = "error")

\* A get of a live key whose bytes are not UTF-8, answered None.
C11_Witness ==
    /\ opres.op = "get"
    /\ client = "connected"
    /\ opres.srv = "up"
    /\ opres.raw # <<>>
    /\ ~Utf8Valid(opres.raw)
    /\ opres.result = PyNone

\* The statuses info() of a backend can report in the current state.
InfoStatuses(b, c) == {cache_info(b, c, now, reply).v.status : reply \in InfoReplies}

\* C12: with caching enabled, each service holds the remote cache exactly
\* when the ping of its start-up was answered and an in-process cache
\* otherwise, never no cache, and info() of the cache held tells the two
\* apart.
C12_BackendFollowsPing ==
    enabled =>
        /\ backend \in {"redis", "memory", "stub"}
        /\ qbackend \in {"redis", "memory"}
        /\ backend = "redis" <=> pinged.gen = "pong"
        /\ qbackend = "redis" <=> pinged.query = "pong"
        /\ InfoStatuses(backend, cache) \subseteq
                (IF backend = "redis" THEN {"connected", "error"}
                 ELSE {"in-memory", "fallback-memory"})
        /\ InfoStatuses(qbackend, qcache) \subseteq
                (IF qbackend = "redis" THEN {"connected", "error"} ELSE {"in-memory"})

\* The generator started while the server refused and fell back, the query
\* service started while it answered, and both have served a request.
C12_Witness ==
    /\ enabled
    /\ pinged.gen = "refused" /\ backend = "memory"
    /\ pinged.query = "pong" /\ qbackend = "redis"
    /\ lastResp.n > 0 /\ qresp.n > 0

\* C13: a /generate request made while the server does not answer, or
\* after a start-up at which it did not, is answered 200 with a text; a
\* /timeseries request made so whose source query returned is answered 200
\* with the rows of the source, or with the cached response.
C13_CacheFailureNeverAnError ==
    /\ (lastResp.n > 0 /\ (lastResp.srv # "up" \/ pinged.gen \in {"refused", "timeout"}))
            => (lastResp.status = 200 /\ lastResp.message.t = "str")
    /\ (qresp.n > 0 /\ (qresp.srv # "up" \/ pinged.query \in {"refused", "timeout"})
            /\ qresp.from \in {"source", "cache"})
            => /\ qresp.status = 200
               /\ (qresp.from = "source" /\ qresp.endpoint = "timeseries")
                    => qresp.body.v[<<"d", "a", "t", "a">>] = PyList(qresp.rows)

\* Both services hold the remote cache, the server is down, and the latest
\* request of each was answered 200.
C13_Witness ==
    /\ backend = "redis" /\ qbackend = "redis"
    /\ lastResp.n > 0 /\ lastResp.srv = "down" /\ lastResp.status = 200
    /\ qresp.n > 0 /\ qresp.srv = "down" /\ qresp.status = 200 /\ qresp.from = "source"
    /\ qresp.endpoint = "timeseries"

\* C20: a /timeseries query of granularity minute or hour whose start_time
\* is at most seven days before now, or ahead of it, is routed to the
\* stream and answered with source "stream", whatever its end_time (the
\* source query not failing).
C20_RecentFineQueriesUseStream ==
    (/\ qresp.n > 0
     /\ qresp.endpoint = "timeseries"
     /\ qresp.query.granularity \in {"minute", "hour"}
     /\ qresp.at - qresp.query.start_time.at <= 7 * TicksPerDay
     /\ qresp.from # "failed")
        => /\ qresp.from # "cache" => qresp.use = PyBool(TRUE)
           /\ qresp.status = 200
           /\ qresp.body.v[<<"s", "o", "u", "r", "c", "e">>] = PyText(<<"s", "t", "r",
                   "e", "a", "m">>)

\* C21: a /timeseries query whose routing decision was taken goes to the
\* stream exactly when its start_time is at most seven days before now and
\* its granularity is minute or hour, or its range is at most 24 hours, and
\* to batch otherwise; the response says which.
C21_StreamExactlyWhenRecentOrShort ==
    (/\ qresp.n > 0
     /\ qresp.endpoint = "timeseries"
     /\ qresp.from \in {"source", "failed"}
     /\ ~IsRaised(qresp.use))
        => /\ qresp.use = PyBool(TRUE) <=>
                \/ /\ qresp.at - qresp.query.start_time.at <= 7 * TicksPerDay
                   /\ qresp.query.granularity \in {"minute", "hour"}
                \/ qresp.query.end_time.at - qresp.query.start_time.at <= TicksPerDay
           /\ qresp.from = "source" =>
                qresp.body.v[<<"s", "o", "u", "r", "c", "e">>] =
                    PyText(IF qresp.use = PyBool(TRUE) THEN <<"s", "t", "r", "e", "a",
                            "m">> ELSE <<"b", "a", "t", "c", "h">>)

\* C22: a /timeseries request answered from the cache returns cached = true
\* with the data and source of the stored response, and runs no source
\* query.
C22_HitIsMarkedCached ==
    (qresp.n > 0 /\ qresp.endpoint = "timeseries" /\ qresp.from = "cache"
     /\ qresp.status = 200)
        => /\ qresp.body.v[<<"c", "a", "c", "h", "e", "d">>] = PyBool(TRUE)
           /\ qresp.body.v[<<"s", "o", "u", "r", "c", "e">>].v \in {<<"s", "t", "r",
                   "e", "a", "m">>, <<"b", "a", "t", "c", "h">>}
           /\ qresp.rows = <<>>

\* The entries of an in-process cache a get at time t still returns.
LiveEntries(c, t) == [k \in {j \in DOMAIN c : c[j].expire_time > t} |-> c[k]]

\* The Redis cache answers at this request and answered at the one before.
CacheWorking == qbackend = "memory" \/ (qresp.srv = "up" /\ server = "up")

\* C23: on each of the four POST endpoints, a request that repeats the
\* parameters of the request before it, answered 200 from the source in the
\* same tick (within the 300 s of the TTL) with the cache working, is
\* answered 200 without a source query.
C23_RepeatedRequestRunsNoQuery ==
    [][(/\ qresp.n > 0 /\ qresp'.n = qresp.n + 1
        /\ qresp.status = 200 /\ qresp.from = "source"
        /\ qresp'.endpoint = qresp.endpoint
        /\ qresp'.query = qresp.query
        /\ qresp'.at = qresp.at
        /\ enabled /\ CacheWorking)
            => (qresp'.ran = 0 /\ qresp'.status = 200)]_vars

\* One of the source queries of the request raised.
SourceRaised(r) == \E i \in DOMAIN r.oks : ~r.oks[i]

\* C24: a request one of whose source queries raised is answered 500 with
\* an error and no data, and what the result cache returns is as before.
C24_SourceFailureIsA500 ==
    /\ []((qresp.n > 0 /\ SourceRaised(qresp))
            => (qresp.status = 500 /\ IsRaised(qresp.body)))
    /\ [][(qresp'.n = qresp.n + 1 /\ SourceRaised(qresp'))
            => /\ LiveEntries(qcache', now) = LiveEntries(qcache, now)
               /\ rstore' = rstore]_vars

\* /user/activity answered 500 after its second source query raised, the
\* first having returned.
C24_Witness ==
    /\ qresp.n > 0 /\ qresp.endpoint = "user_activity"
    /\ qresp.oks = <<TRUE, FALSE>> /\ qresp.ran = 2 /\ qresp.status = 500

\* The hit rate GET /cache/stats reports, as numerator and denominator.
ReportedRate(reply) == get_cache_stats(backend, cache, cache_stats, now, reply).v.hit_rate

\* C29: hits + misses = total; the reported hit rate is hits / total, and 0
\* when total = 0; no counter ever decreases, the counters change by one
\* probe at a time (total and exactly one of hits and misses by 1), and
\* every /generate request served with a cache makes one probe.
C29_CountersAddUp ==
    /\ [](/\ cache_stats.hits + cache_stats.misses = cache_stats.total
          /\ backend # "none" =>
                \A reply \in InfoReplies :
                    /\ ReportedRate(reply)[2] > 0
                    /\ ReportedRate(reply)[1] * cache_stats.total
                            = cache_stats.hits * ReportedRate(reply)[2]
                    /\ cache_stats.total = 0 => ReportedRate(reply)[1] = 0)
    /\ [][/\ cache_stats'.hits >= cache_stats.hits
          /\ cache_stats'.misses >= cache_stats.misses
          /\ cache_stats'.total >= cache_stats.total
          /\ cache_stats' # cache_stats =>
                /\ cache_stats'.total = cache_stats.total + 1
                /\ cache_stats'.hits + cache_stats'.misses
                        = cache_stats.hits + cache_stats.misses + 1
          /\ (lastResp'.n # lastResp.n /\ backend # "none") =>
                cache_stats'.total = cache_stats.total + 1]_vars

\* Two requests were served with a cache: the first missed, the second hit.
C29_Witness ==
    /\ backend # "none"
    /\ cache_stats = [hits |-> 1, misses |-> 1, total |-> 2]
    /\ lastResp.n = 2

\* Both requests found nothing in the cache; both have been answered.
BothMissed == \A h \in Handlers : inflight[h].missed
BothDone == \A h \in Handlers : inflight[h].pc = "done"

\* The bytes the server holds under the fingerprint are the message of h.
HoldsMessageOf(store, h, message) ==
    /\ DOMAIN store = {RaceFingerprint}
    /\ store[RaceFingerprint].bytes = Utf8Encode(message)

\* C33: when two /generate requests with one fingerprint run at once and
\* both miss, each writes the cache only after its own LLM call has
\* returned, and what it writes is the text of that call; when both have
\* completed, the cache holds one live entry for the fingerprint, whose value
\* is the message returned to one of the two.
C33_DoubleMissLeavesOneEntry ==
    /\ [][rstore' # rstore =>
            \E h \in Handlers :
                /\ inflight[h].pc = "called" /\ inflight'[h].pc = "done"
                /\ HoldsMessageOf(rstore', h, inflight[h].generated)]_vars
    /\ []((BothMissed /\ BothDone) =>
            \E h \in Handlers : /\ HoldsMessageOf(rstore, h, inflight[h].message.v)
                                /\ inflight[h].message.v = inflight[h].generated)
    /\ [][(BothMissed' /\ BothDone' /\ ~BothDone) => RedisLive(rstore', now',
            RaceFingerprint)]_vars

\* C33 witness: both requests missed and were answered with different
\* messages, and the cache holds the message of the first process.
C33_Witness ==
    /\ BothMissed /\ BothDone
    /\ inflight["h1"].message # inflight["h2"].message
    /\ HoldsMessageOf(rstore, "h1", inflight["h1"].message.v)

\* The latest request was a /timeseries request that queried a source.
QueriedSource == qresp.n > 0 /\ qresp.endpoint = "timeseries" /\ qresp.ran = 1

\* C34: a /timeseries query routed to batch reads shop_visits_hourly when
\* the granularity is hour, user_activity_daily when it is day, and
\* monthly_shop_summary for every other granularity (minute, month, unknown
\* values); a query routed to stream always reads user_events.
C34_TableByRouteAndGranularity ==
    QueriedSource =>
        IF qresp.use = PyBool(TRUE) THEN qresp.table = "user_events"
        ELSE /\ qresp.query.granularity = "hour" => qresp.table = "shop_visits_hourly"
             /\ qresp.query.granularity = "day" => qresp.table = "user_activity_daily"
             /\ qresp.query.granularity \notin {"hour", "day"} =>
                    qresp.table = "monthly_shop_summary"

\* C34 witness: a query of an unknown granularity was routed to batch and
\* answered from the monthly summary.
C34_Witness ==
    /\ QueriedSource /\ qresp.use = PyBool(FALSE) /\ qresp.status = 200
    /\ qresp.query.granularity = "week"
    /\ qresp.table = "monthly_shop_summary"

(***************************************************************************)
(* Claims about the monthly batch summary.                                 *)
(***************************************************************************)

\* The values the latest read returned for shop s, in result order.
ValuesOf(result, s) ==
    LET Keep(r) == r.dimensions.shop_id = s IN
    [i \in DOMAIN SelectSeq(result, Keep) |-> SelectSeq(result, Keep)[i].value]

\* The total of a timeseries result (0 when the month has no point).
TotalOf(result) == IF result = <<>> THEN 0 ELSE result[1].value

\* C30: after any number of runs of refresh_monthly_summary in one month, a
\* read of monthly_shop_summary by the query service yields for each
\* (month, shop_id) the values of the latest run only: the aggregate query
\* returns one row for a shop, with the total_visits of the latest run, and
\* the batch timeseries returns the total of the latest run, never a sum over
\* the rows of several runs.
C30_ReadsLatestRunOnly ==
    /\ mvread.kind = "aggregate" =>
            \A s \in ShopNames :
                ValuesOf(mvread.result, s) =
                    IF mvread.of[s] > 0 THEN <<mvread.of[s]>> ELSE <<>>
    /\ (mvread.kind = "timeseries" /\ mvread.covers) =>
            TotalOf(mvread.result) = mvread.of["Caffe X"] + mvread.of["Altro"]

\* ---------------------------------------------------------------------
\* Claims about the threads of the in-process cache
\* ---------------------------------------------------------------------

\* The thread t takes the step, inside get, exists or a pass of the reaper.
ExpiryStep(t) == thr'[t] # thr[t] /\ thr[t].op \in {"get", "exists", "cleanup"}

\* C38: under any interleaving of the request threads and the reaper thread,
\* an entry (in particular one set again with a fresh TTL after the previous
\* value of its key expired) is deleted by the reaper, by get or by exists
\* only when that entry itself is expired, never on account of the expiry of
\* the value it replaced; and no interleaving of get, exists, delete and the
\* reaper on a key raises an error.
C38_FreshEntrySurvivesAndNoError ==
    [][/\ \A t \in AllThreads, k \in DOMAIN cache :
            (ExpiryStep(t) /\ k \notin DOMAIN cache') => now > cache[k].expire_time
       /\ \A t \in AllThreads : thr'[t].raised = ""]_vars

\* An expired entry was set again with a fresh TTL; afterwards a pass of the
\* reaper listed the expired keys, found none and left the new entry.
C38_Witness ==
    \E k \in DOMAIN renewed :
        /\ k \in DOMAIN cache
        /\ thr[cleanup_thread].pc = "exit"
        /\ thr[cleanup_thread].current_time >= renewed[k]
        /\ thr[cleanup_thread].keys_to_delete = {}

====
